---- MODULE Spec2Model ----
(***************************************************************************)
(* A model of the recursive inotify watcher of package status              *)
(* (Watch: Start, AddWatch, addWatch, readEvents, handleEvents,            *)
(* SetCallback), of the registry file it persists, and of the part of the  *)
(* Linux filesystem and inotify instance that it talks to.                 *)
(*                                                                         *)
(* Strings are sequences of code units, so that path.Join, path.Base,      *)
(* strings.HasPrefix and the JSON string encoding are computed, not        *)
(* assumed.  "/r" is <<"/", "r">>.                                         *)
(***************************************************************************)
EXTENDS Integers, Sequences, FiniteSets, TLC

----------------------------------------------------------------------------
(* Bounds of the model.                                                    *)

\* The number of filesystem operations the environment performs in a run.
MaxOps == 2

----------------------------------------------------------------------------
(* Strings and paths (package path).                                       *)

Str(u) == <<u>>

\* p.Join(a, b): empty elements are ignored, the others joined with "/".
Join(a, b) ==
    IF a = <<>> THEN b
    ELSE IF b = <<>> THEN a
    ELSE a \o <<"/">> \o b

\* p.Clean on the paths that arise here (no "..", no doubled slash): the
\* empty path becomes ".".
Clean(path) == IF path = <<>> THEN <<".">> ELSE path

\* The index of the last "/" of a path, 0 when it has none.
LastSlash(path) ==
    LET S == {i \in 1..Len(path) : path[i] = "/"}
    IN  IF S = {} THEN 0 ELSE CHOOSE i \in S : \A k \in S : k <= i

\* p.Base(path): the last element of the path.
Base(path) ==
    IF path = <<>> THEN <<".">>
    ELSE SubSeq(path, LastSlash(path) + 1, Len(path))

\* p.Dir(path): all but the last element of the path.
Dir(path) ==
    IF LastSlash(path) <= 1 THEN (IF LastSlash(path) = 1 THEN <<"/">> ELSE <<".">>)
    ELSE SubSeq(path, 1, LastSlash(path) - 1)

\* strings.HasPrefix(s, "."), the test of addWatch's hidden-directory rule.
HasDotPrefix(s) == Len(s) >= 1 /\ s[1] = "."

\* Whether path lies strictly beneath dir.
Beneath(path, dir) ==
    /\ Len(path) > Len(dir) + 1
    /\ SubSeq(path, 1, Len(dir)) = dir
    /\ path[Len(dir) + 1] = "/"

----------------------------------------------------------------------------
(* The directory tree the environment works in.                            *)

RootR == <<"/", "r">>
NameA == <<"a">>
NameB == <<"b">>
NameH == <<".", "h">>
NameF == <<"f">>
NameG == <<"g">>
NameVendor == <<"v", "e", "n", "d", "o", "r">>
NameLock == <<"G", "o", "p", "k", "g", ".", "l", "o", "c", "k">>
NameJson == <<"v", "e", "n", "d", "o", "r", ".", "j", "s", "o", "n">>

DirA == Join(RootR, NameA)
DirB == Join(DirA, NameB)
DirH == Join(RootR, NameH)
DirC == Join(RootR, NameB)
DirG == Join(RootR, NameG)
DirV == Join(RootR, NameVendor)

\* The directories that may exist, and the files.
\* A directory whose name is one byte that is not valid UTF-8.
RootX == <<"/", "xFF">>

DirUniverse == {RootR, DirA, DirB, DirH}
FileUniverse == {Join(RootR, NameF), Join(DirA, NameF)}

\* sort.Strings over the names of the universe:
\* "." < "G" < "a" < "b" < "f" < "g" < "vendor" < "vendor.json".
NameOrder ==
    <<NameH, NameLock, NameA, NameB, NameF, NameG, NameVendor, NameJson>>

----------------------------------------------------------------------------
(* Maps (Go map[K]V) as functions with a finite domain.                    *)

EmptyMap == [k \in {} |-> <<>>]
MapPut(m, k, v) == [x \in DOMAIN m \cup {k} |-> IF x = k THEN v ELSE m[x]]
MapDel(m, k) == [x \in DOMAIN m \ {k} |-> m[x]]
\* m[k] of a Go map[K]string: the zero value "" when k is absent.
MapGet(m, k) == IF k \in DOMAIN m THEN m[k] ELSE <<>>

----------------------------------------------------------------------------
(* Program constants.                                                      *)

\* eventChan := make(chan struct{}, 100)
eventChanCap == 100

\* The mask addWatch passes to InotifyAddWatch.  IN_DELETE_SELF is written
\* twice there and IN_MOVE_SELF is not in it.
WatchMask ==
    {"IN_CREATE", "IN_DELETE", "IN_MODIFY", "IN_MOVED_FROM", "IN_MOVED_TO",
     "IN_DELETE_SELF", "IN_DELETE_SELF"}

VARIABLES
    \* the filesystem and the environment acting on it
    dirs,          \* the directories that exist
    files,         \* the regular files that exist
    ops,           \* filesystem operations performed so far
    \* the kernel's inotify instance behind w.inotifyFd
    inWatches,     \* watch descriptor -> the directory it watches
    nextWd,        \* the next watch descriptor the kernel hands out
    inq,           \* the queue of event records not yet processed
    maxQueued,     \* the instance's limit of queued records
                   \* (/proc/sys/fs/inotify/max_queued_events)
    \* the build
    listFirst,     \* whether filepath.Walk lists a directory before it calls
                   \* the walk function on it (see WalkList)
    \* the state directory and the calls of Start on it
    lk,            \* the file "watch": whether it exists, who holds its flock
    sp,            \* the calls of Start: their positions and results
    \* the flows that are modelled without the rest of the Watch
    dc,            \* a read loop at the level of bytes: the bytes to come,
                   \* its buffer, its position and what it has emitted
    tk,            \* the Status of package status, the clock, the requests
                   \* posted to Toggl and the file "tick"
    \* the Watch
    proc,          \* "up", or "crashed" after a panic
    rootWatches,   \* w.rootWatches: root path -> project
    wdToPath,      \* w.wdToPath: watch descriptor -> path
    stateFile,     \* the contents of the file behind w.stateFile
    eventChan,     \* the number of elements buffered in eventChan
    \* the flow of the caller of AddWatch
    aw,            \* the call in progress
    ret,           \* what the last completed AddWatch returned
    installed,     \* the roots whose w.addWatch(dir) in AddWatch returned nil
    now,           \* the time, in seconds
    he,            \* handleEvents: its position and its timer
    callback,      \* w.callback
    callbackMu,    \* w.callbackMu: the flow that holds it, or "free"
    calls,         \* how many times the callback has been invoked
    obs,           \* what an observer of the filesystem events has noted
    st,            \* Start: its position, and how often the program started
    \* filepath.Walk in progress, of the caller's flow and of readEvents'
    wk,
    \* the flow of readEvents
    rd

envVars == <<dirs, files, ops>>
kernVars == <<inWatches, nextWd, inq>>
watchVars == <<rootWatches, wdToPath, stateFile, eventChan>>
callVars == <<aw, ret, installed>>
hdlVars == <<now, he, callback, callbackMu, calls, obs>>
auxVars == <<now, he, callback, callbackMu, calls, obs, st>>
sysVars == <<listFirst, maxQueued, lk, sp, dc, tk>>
\* No read loop at the level of bytes is running.
NoRead ==
    [loop |-> "none", pc |-> "off", recs |-> <<>>, src |-> <<>>, buf |-> <<>>,
     n |-> 0, start |-> 0, end |-> 0, out |-> <<>>, errs |-> 0,
     failed |-> FALSE]

\* No Status has been read.
NoStatus ==
    [pc |-> "off", clock |-> 0, latestTick |-> 0, projectName |-> "",
     timeEntryID |-> "", posts |-> <<>>, file |-> "none", arg |-> ""]

Elsewhere == dc = NoRead /\ tk = NoStatus

vars == <<dirs, files, ops, inWatches, nextWd, inq, maxQueued, listFirst, lk,
          sp, dc, tk, proc, rootWatches, wdToPath, stateFile, eventChan, aw, ret,
          installed, wk, rd, now, he, callback, callbackMu, calls, obs, st>>

----------------------------------------------------------------------------
(* The kernel side of inotify.                                             *)

\* The watch descriptor on directory d, 0 when d is not watched.
WdOf(d) ==
    IF \E w \in DOMAIN inWatches : inWatches[w] = d
    THEN CHOOSE w \in DOMAIN inWatches : inWatches[w] = d
    ELSE 0

Event(wd, mask, name) == [wd |-> wd, mask |-> mask, name |-> name]

\* The record the kernel queues, once, when the queue is full: no watch
\* descriptor (-1) and no name.
Overflow == Event(0 - 1, {"IN_Q_OVERFLOW"}, <<>>)

\* The queue q after the kernel reports `kind` (with flags `more`) on the
\* watch of directory d: only kinds in the watch's mask are reported, and
\* IN_IGNORED always is.  A queue that holds maxQueued records takes the
\* overflow record instead, if it does not hold one, and the event is lost.
Emit(q, d, kind, more, name) ==
    IF WdOf(d) # 0 /\ (kind \in WatchMask \/ kind = "IN_IGNORED")
    THEN IF Len(q) < maxQueued
         THEN Append(q, Event(WdOf(d), {kind} \cup more, name))
         ELSE IF \E i \in 1..Len(q) : q[i] = Overflow THEN q
         ELSE Append(q, Overflow)
    ELSE q

\* inotify_add_watch(fd, d, mask): the descriptor of the existing watch on d,
\* or a new one.
AddWatchWd(d) == IF WdOf(d) # 0 THEN WdOf(d) ELSE nextWd

----------------------------------------------------------------------------
(* The environment: other processes working in the tree.                   *)

HasChildren(d) == \E x \in dirs \cup files : Dir(x) = d

Mkdir(d) ==
    /\ ops < MaxOps
    /\ d \notin dirs \cup files /\ d # RootR /\ Dir(d) \in dirs
    /\ dirs' = dirs \cup {d}
    /\ inq' = Emit(inq, Dir(d), "IN_CREATE", {"IN_ISDIR"}, Base(d))
    /\ ops' = ops + 1
    /\ UNCHANGED <<files, inWatches, nextWd>>

\* rmdir(d): the kernel reports the deletion on d's own watch, drops that
\* watch (IN_IGNORED), and reports the deletion to the parent's watch.
Rmdir(d) ==
    /\ ops < MaxOps
    /\ d \in dirs /\ d # RootR /\ ~HasChildren(d)
    /\ dirs' = dirs \ {d}
    /\ inq' = LET q1 == Emit(inq, d, "IN_DELETE_SELF", {}, <<>>)
                  q2 == Emit(q1, d, "IN_IGNORED", {}, <<>>)
              IN  Emit(q2, Dir(d), "IN_DELETE", {"IN_ISDIR"}, Base(d))
    /\ inWatches' = MapDel(inWatches, WdOf(d))
    /\ ops' = ops + 1
    /\ UNCHANGED <<files, nextWd>>

CreateFile(f) ==
    /\ ops < MaxOps
    /\ f \notin dirs \cup files /\ Dir(f) \in dirs
    /\ files' = files \cup {f}
    /\ inq' = Emit(inq, Dir(f), "IN_CREATE", {}, Base(f))
    /\ ops' = ops + 1
    /\ UNCHANGED <<dirs, inWatches, nextWd>>

WriteFile(f) ==
    /\ ops < MaxOps
    /\ f \in files
    /\ inq' = Emit(inq, Dir(f), "IN_MODIFY", {}, Base(f))
    /\ ops' = ops + 1
    /\ UNCHANGED <<dirs, files, inWatches, nextWd>>

RemoveFile(f) ==
    /\ ops < MaxOps
    /\ f \in files
    /\ files' = files \ {f}
    /\ inq' = Emit(inq, Dir(f), "IN_DELETE", {}, Base(f))
    /\ ops' = ops + 1
    /\ UNCHANGED <<dirs, inWatches, nextWd>>

\* rename(f, g) of a file: two records, IN_MOVED_FROM and IN_MOVED_TO.
Rename(f, g) ==
    /\ ops < MaxOps
    /\ f \in files /\ g \notin files /\ Dir(g) \in dirs
    /\ files' = (files \ {f}) \cup {g}
    /\ inq' = Emit(Emit(inq, Dir(f), "IN_MOVED_FROM", {}, Base(f)),
                   Dir(g), "IN_MOVED_TO", {}, Base(g))
    /\ ops' = ops + 1
    /\ UNCHANGED <<dirs, inWatches, nextWd>>

\* An observer of the filesystem operations sorts them into groups: an
\* operation more than a quiet period (`period`) after the one before begins
\* a group, one less than a period after the group's first belongs to it.
\* `scoped` tells that every operation so far was of one of the two kinds
\* and was made with a callback registered.
NoEvents == [groups |-> 0, first |-> 0, last |-> 0, scoped |-> TRUE]

Note(o, t, registered, period) ==
    IF ~registered THEN [o EXCEPT !.scoped = FALSE]
    ELSE IF o.groups = 0 \/ t - o.last > period
    THEN [o EXCEPT !.groups = o.groups + 1, !.first = t, !.last = t]
    ELSE IF t - o.first < period THEN [o EXCEPT !.last = t]
    ELSE [o EXCEPT !.scoped = FALSE, !.last = t]

----------------------------------------------------------------------------
(* filepath.Walk(path, fn), with addWatch's function literal as fn.        *)
(*                                                                         *)
(* Walk lstats the root, and for a directory it both calls fn on it and    *)
(* reads its names (sorted); then it lstats each name and descends.  Which *)
(* of the two comes first is not part of Walk's contract and differs       *)
(* between Go releases: older ones call walkFn(path, info, nil) and then   *)
(* readDirNames, current ones call readDirNames and then                   *)
(* walkFn(path, info, err); the repository pins no toolchain.  listFirst   *)
(* is that property of the build.  Each system call is one step.           *)

Flows == {"caller", "reader"}

NoWalk ==
    [phase |-> "off", cur |-> <<>>, stack |-> <<>>, listed |-> FALSE,
     names |-> <<>>, listErr |-> FALSE, wd |-> 0, err |-> FALSE]

\* Walk(root, fn) begins: os.Lstat(root) comes next.
StartWalk(root) == [NoWalk EXCEPT !.phase = "lstat", !.cur = root]

\* Walk ends, with the error it returns.
EndWalk(failed) == [NoWalk EXCEPT !.phase = "done", !.err = failed]

\* names := readDirNames(d), sorted.
ReadDirNames(d) ==
    SelectSeq(NameOrder, LAMBDA n : Join(d, n) \in dirs \cup files)

\* The loop `for _, name := range names` of walk(), over the frames of the
\* directories being walked: the next name to lstat, or the end of the walk.
RECURSIVE Advance(_)
Advance(stack) ==
    IF stack = <<>> THEN EndWalk(FALSE)
    ELSE LET top == stack[Len(stack)]
         IN  IF top.names = <<>>
             THEN Advance(SubSeq(stack, 1, Len(stack) - 1))
             ELSE [NoWalk EXCEPT
                     !.phase = "lstat",
                     !.cur = Join(top.path, Head(top.names)),
                     !.stack = [stack EXCEPT ![Len(stack)].names = Tail(top.names)]]

\* A walk that stays on the surface: it goes on with the enclosing frames
\* and never enters w.cur.
DescendNever(w, names) == Advance(w.stack)

\* walk() descends into directory w.cur, whose names were read.
Descend(w, names) ==
    Advance(Append(w.stack, [path |-> w.cur, names |-> names]))

\* os.Stat(path) succeeds.
Exists(path) == path \in dirs \cup files

\* addWatch's rule for the directories it leaves out (return fp.SkipDir):
\* hidden directories, and a directory "vendor" that dep manages
\* (Gopkg.lock beside it) or govendor (vendor.json in it).
Skipped(path) ==
    \/ HasDotPrefix(Base(path))
    \/ /\ Base(path) = NameVendor
       /\ \/ Exists(Join(Dir(path), NameLock))
          \/ Exists(Join(path, NameJson))

\* os.Lstat on the root or on a listed name.  When it fails Walk calls
\* fn(path, nil, err), and fn's info.IsDir() dereferences the nil info: the
\* process panics.  For a file fn returns nil.
WalkLstat(f) ==
    /\ proc = "up"
    /\ wk[f].phase = "lstat"
    /\ LET c == wk[f].cur
       IN  IF c \in dirs
           THEN /\ wk' = [wk EXCEPT ![f].phase = "enter"]
                /\ proc' = proc
           ELSE IF c \in files
           THEN /\ wk' = [wk EXCEPT ![f] = Advance(wk[f].stack)]
                /\ proc' = proc
           ELSE /\ proc' = "crashed"
                /\ wk' = wk
    /\ UNCHANGED <<envVars, kernVars, watchVars, sysVars, callVars, rd>>

\* readDirNames(path), before fn in a build that lists first and after it
\* otherwise.  When it fails (the directory is gone) fn is called with the
\* error and Walk does not descend.
WalkList(f) ==
    /\ proc = "up"
    /\ \/ wk[f].phase = "enter" /\ listFirst
       \/ wk[f].phase = "list"
    /\ LET w == wk[f]
           failed == w.cur \notin dirs
           names == ReadDirNames(w.cur)
       IN  wk' = [wk EXCEPT ![f] =
                    IF w.phase = "list" /\ ~failed
                    THEN Descend(w, names)
                    ELSE [w EXCEPT !.phase = "fn", !.listed = TRUE,
                                   !.names = names, !.listErr = failed]]
    /\ UNCHANGED <<envVars, kernVars, watchVars, sysVars, proc, callVars, rd>>

\* The function literal of addWatch on a directory, up to its system call:
\* fp.SkipDir for a directory that is left out, else
\* InotifyAddWatch(w.inotifyFd, path, mask).  An error of InotifyAddWatch
\* (nothing is at the path any more) ends the walk with that error.  The
\* mask has no IN_ONLYDIR: a regular file that has taken the place of the
\* directory is watched like one.
WalkFn(f) ==
    /\ proc = "up"
    /\ \/ wk[f].phase = "enter" /\ ~listFirst
       \/ wk[f].phase = "fn"
    /\ LET w == wk[f]
           wd == AddWatchWd(w.cur)
       IN  IF Skipped(w.cur)
           THEN /\ wk' = [wk EXCEPT ![f] = Advance(w.stack)]
                /\ UNCHANGED <<inWatches, nextWd>>
           ELSE IF ~Exists(w.cur)
           THEN /\ wk' = [wk EXCEPT ![f] = EndWalk(TRUE)]
                /\ UNCHANGED <<inWatches, nextWd>>
           ELSE /\ inWatches' = MapPut(inWatches, wd, w.cur)
                /\ nextWd' = IF wd = nextWd THEN nextWd + 1 ELSE nextWd
                /\ wk' = [wk EXCEPT ![f].phase = "put", ![f].wd = wd]
    /\ UNCHANGED <<envVars, inq, watchVars, sysVars, proc, callVars, rd>>

\* What walk() does once fn(path, info, err) has returned nil: read the
\* names when fn came first, else descend into the names read (not after an
\* error of readDirNames).
AfterFn(w) ==
    IF ~w.listed THEN [w EXCEPT !.phase = "list", !.wd = 0]
    ELSE IF w.listErr THEN Advance(w.stack)
    ELSE Descend(w, w.names)

\* The two flows use w.wdToPath and w.rootWatches without a lock.  Flow f
\* is at a write of one of the maps: the walk's w.wdToPath[wd] = path, or
\* the read flow's two deletes for a record of the watched directory itself.
MapWriter(f) ==
    \/ wk[f].phase = "put"
    \/ /\ f = "reader"
       /\ rd.pc = "notify"
       /\ rd.ev.mask \cap {"IN_MOVE_SELF", "IN_DELETE_SELF"} # {}

Other(f) == IF f = "caller" THEN "reader" ELSE "caller"

\* A map access of flow f that coincides with a write by the other flow is
\* a data race: it may go through, in either order, or the Go runtime may
\* stop the process ("fatal error: concurrent map writes").
RaceStops(f) ==
    /\ MapWriter(Other(f))
    /\ proc' = "crashed"
    /\ UNCHANGED <<envVars, kernVars, watchVars, sysVars, callVars, wk, rd>>

\* w.rootWatches is another map: AddWatch reads and writes it, Encode reads
\* it, and the read flow deletes from it for a record of the watched
\* directory itself.  An access by AddWatch that coincides with that delete
\* is a data race as well.
RootsRaceStops ==
    /\ rd.pc = "notify"
    /\ rd.ev.mask \cap {"IN_MOVE_SELF", "IN_DELETE_SELF"} # {}
    /\ proc' = "crashed"
    /\ UNCHANGED <<envVars, kernVars, watchVars, sysVars, callVars, wk, rd>>

\* w.wdToPath[wd] = path, and fn returns nil.
WalkPut(f) ==
    /\ proc = "up"
    /\ wk[f].phase = "put"
    /\ \/ /\ wdToPath' = MapPut(wdToPath, wk[f].wd, wk[f].cur)
          /\ wk' = [wk EXCEPT ![f] = AfterFn(wk[f])]
          /\ UNCHANGED <<envVars, kernVars, rootWatches, stateFile, eventChan,
                         sysVars, proc, callVars, rd>>
       \/ RaceStops(f)

\* addWatch(path): the walk, step by step.
addWatch(f) ==
    /\ WalkLstat(f) \/ WalkList(f) \/ WalkFn(f) \/ WalkPut(f)
    /\ UNCHANGED auxVars

----------------------------------------------------------------------------
(* The registry file: encoding/json on map[string]string.                  *)

\* What json.Marshal makes of a Go string: bytes that are not valid UTF-8
\* (the unit "xFF") are replaced by U+FFFD.
Coerce(s) == [i \in 1..Len(s) |-> IF s[i] = "xFF" THEN "uFFFD" ELSE s[i]]

\* The keys json.Marshal may meet, in the order it sorts them (by their
\* bytes, before the replacement).
KeyOrder == <<RootR, DirH, Coerce(RootX), RootX>>

\* MarshalJSON: json.Marshal(w.rootWatches), the members sorted by key.
\* The document is the sequence of its <<key, value>> members.
MarshalJSON(m) ==
    LET keys == SelectSeq(KeyOrder, LAMBDA k : k \in DOMAIN m)
    IN  [i \in 1..Len(keys) |-> <<Coerce(keys[i]), Coerce(m[keys[i]])>>]

\* A member of a document whose value is a JSON number, not a string.
NumberMember(k) == <<k, <<"5">>, "number">>

\* The place where a file ends inside its document.
Cut == <<"cut">>

\* What json.Unmarshal stores for a member of a map[string]string: the
\* string, or for a value that is no string the zero value (it notes an
\* UnmarshalTypeError and goes on with the next member).
Stored(member) == IF Len(member) = 2 THEN member[2] ELSE <<>>

\* UnmarshalJSON: json.Unmarshal(data, &w.rootWatches) sets each member of
\* the document in the map, the later of two equal keys winning.
RECURSIVE UnmarshalJSON(_, _)
UnmarshalJSON(doc, m) ==
    IF doc = <<>> THEN m
    ELSE UnmarshalJSON(Tail(doc), MapPut(m, Head(doc)[1], Stored(Head(doc))))

\* json.NewDecoder(w.stateFile).Decode(w) in Start, its error ignored: a
\* file of length zero holds no document and leaves the map as it is, and
\* so does a file that ends inside its document, for which Decode returns a
\* syntax error before it calls UnmarshalJSON.
Decode(file, m) ==
    IF file = <<>> THEN m
    ELSE IF \E i \in 1..Len(file[1]) : file[1][i] = Cut THEN m
    ELSE UnmarshalJSON(file[1], m)

\* Start has returned the Watch, for the first time.
Started == [pc |-> "done", todo |-> {}, starts |-> 1]

----------------------------------------------------------------------------
(* AddWatch(dir, project), on the caller's flow.                           *)

\* The call frame; `since` notes how many filesystem operations had been
\* performed when the call began, and `before` what the registry file held.
Idle ==
    [pc |-> "idle", dir |-> <<>>, project |-> <<>>, alreadyWatched |-> FALSE,
     since |-> 0, before |-> <<>>]

\* AddWatch returns.
Return(dir, failed) == [dir |-> dir, err |-> failed]

\* Lines 224-228: the lookup, w.rootWatches[dir] = project and Seek(0); a
\* call that finds the root registered under the same project returns nil.
AddWatchBegin(dir, project) ==
    /\ proc = "up"
    /\ aw.pc = "idle"
    /\ \/ /\ LET alreadyWatched == dir \in DOMAIN rootWatches
                 changedProject == alreadyWatched /\ rootWatches[dir] # project
             IN  IF ~alreadyWatched \/ changedProject
                 THEN /\ rootWatches' = MapPut(rootWatches, dir, project)
                      /\ aw' = [pc |-> "truncate", dir |-> dir,
                                project |-> project,
                                alreadyWatched |-> alreadyWatched,
                                since |-> ops, before |-> stateFile]
                      /\ ret' = ret
                 ELSE /\ ret' = Return(dir, FALSE)
                      /\ UNCHANGED <<rootWatches, aw>>
          /\ UNCHANGED <<envVars, kernVars, wdToPath, stateFile, eventChan,
                         sysVars, proc, installed, wk, rd>>
       \/ RootsRaceStops

\* w.stateFile.Truncate(0)
AddWatchTruncate ==
    /\ proc = "up"
    /\ aw.pc = "truncate"
    /\ stateFile' = <<>>
    /\ aw' = [aw EXCEPT !.pc = "encode"]
    /\ UNCHANGED <<envVars, kernVars, rootWatches, wdToPath, eventChan,
                   sysVars, proc, ret, installed, wk, rd>>

\* An AddWatch that calls w.addWatch(dir) after every registry write, for a
\* root that was registered before as well.
AddWatchEncodeInstall ==
    /\ proc = "up"
    /\ aw.pc = "encode"
    /\ \/ /\ stateFile' = <<MarshalJSON(rootWatches)>>
          /\ aw' = [aw EXCEPT !.pc = "addWatch"]
          /\ wk' = [wk EXCEPT !["caller"] = StartWalk(aw.dir)]
          /\ ret' = ret
          /\ UNCHANGED <<envVars, kernVars, rootWatches, wdToPath, eventChan,
                         sysVars, proc, installed, rd>>
       \/ RootsRaceStops

\* json.NewEncoder(w.stateFile).Encode(w) writes the document; then, for a
\* root that was not registered, w.addWatch(dir) begins.
AddWatchEncode ==
    /\ proc = "up"
    /\ aw.pc = "encode"
    /\ \/ /\ stateFile' = <<MarshalJSON(rootWatches)>>
          /\ IF ~aw.alreadyWatched
             THEN /\ aw' = [aw EXCEPT !.pc = "addWatch"]
                  /\ wk' = [wk EXCEPT !["caller"] = StartWalk(aw.dir)]
                  /\ ret' = ret
             ELSE /\ aw' = Idle
                  /\ ret' = Return(aw.dir, FALSE)
                  /\ wk' = wk
          /\ UNCHANGED <<envVars, kernVars, rootWatches, wdToPath, eventChan,
                         sysVars, proc, installed, rd>>
       \/ RootsRaceStops

\* w.addWatch(dir) has returned: AddWatch returns its error, or nil.
AddWatchReturn ==
    /\ proc = "up"
    /\ aw.pc = "addWatch"
    /\ wk["caller"].phase = "done"
    /\ ret' = Return(aw.dir, wk["caller"].err)
    /\ installed' = IF wk["caller"].err THEN installed
                    ELSE installed \cup {aw.dir}
    /\ aw' = Idle
    /\ wk' = [wk EXCEPT !["caller"] = NoWalk]
    /\ UNCHANGED <<envVars, kernVars, watchVars, sysVars, proc, rd>>

----------------------------------------------------------------------------
(* readEvents, the read flow.                                              *)

\* The flow's position and the record in hand; `walked` notes what the
\* w.addWatch(path) of line 173 returned ("nil", "err"), which the code
\* drops.
Reading ==
    [pc |-> "read", ev |-> Event(0, {}, <<>>), path |-> <<>>, walked |-> "none"]

\* unix.Read and the decoding of the next record: the record leaves the
\* queue and its path is p.Clean(p.Join(w.wdToPath[wd], name)).
ReadRecord ==
    /\ proc = "up"
    /\ rd.pc = "read"
    /\ inq # <<>>
    /\ \/ /\ LET ev == Head(inq)
                 needStat ==
                     ev.mask \cap {"IN_CREATE", "IN_MODIFY", "IN_MOVED_TO"} # {}
             IN  rd' = [pc |-> IF needStat THEN "stat" ELSE "notify",
                        ev |-> ev,
                        path |-> Clean(Join(MapGet(wdToPath, ev.wd), ev.name)),
                        walked |-> "none"]
          /\ inq' = Tail(inq)
          /\ UNCHANGED <<envVars, inWatches, nextWd, watchVars, sysVars, proc,
                         callVars, wk>>
       \/ RaceStops("reader")

\* A read flow that sends a record of a new directory on without
\* w.addWatch(path).
ReadStatOnly ==
    /\ proc = "up"
    /\ rd.pc = "stat"
    /\ IF rd.path \notin dirs \cup files
       THEN /\ proc' = "crashed"
            /\ rd' = rd
       ELSE /\ rd' = [rd EXCEPT !.pc = "notify", !.walked = "nil"]
            /\ proc' = proc
    /\ UNCHANGED <<envVars, kernVars, watchVars, sysVars, callVars, wk>>

\* os.Stat(path): in Render for a create or modify record and in readEvents
\* for a create or moved-to record.  Both call IsDir() on the nil FileInfo
\* of a failed stat, which panics.  A new directory gets w.addWatch(path).
ReadStat ==
    /\ proc = "up"
    /\ rd.pc = "stat"
    /\ IF rd.path \notin dirs \cup files
       THEN /\ proc' = "crashed"
            /\ UNCHANGED <<rd, wk>>
       ELSE IF rd.ev.mask \cap {"IN_CREATE", "IN_MOVED_TO"} # {} /\ rd.path \in dirs
       THEN /\ rd' = [rd EXCEPT !.pc = "addWatch"]
            /\ wk' = [wk EXCEPT !["reader"] = StartWalk(rd.path)]
            /\ proc' = proc
       ELSE /\ rd' = [rd EXCEPT !.pc = "notify"]
            /\ UNCHANGED <<proc, wk>>
    /\ UNCHANGED <<envVars, kernVars, watchVars, sysVars, callVars>>

\* w.addWatch(path) has returned; readEvents drops its error.
ReadAddWatchReturn ==
    /\ proc = "up"
    /\ rd.pc = "addWatch"
    /\ wk["reader"].phase = "done"
    /\ rd' = [rd EXCEPT !.pc = "notify",
                        !.walked = IF wk["reader"].err THEN "err" ELSE "nil"]
    /\ wk' = [wk EXCEPT !["reader"] = NoWalk]
    /\ UNCHANGED <<envVars, kernVars, watchVars, sysVars, proc, callVars>>

\* A send that gives up when the channel is full:
\* select { case eventChan <- struct{}{}: default: }.
ReadNotifyOrDrop ==
    /\ proc = "up"
    /\ rd.pc = "notify"
    /\ IF rd.ev.mask \cap {"IN_MOVE_SELF", "IN_DELETE_SELF"} # {}
       THEN /\ wdToPath' = MapDel(wdToPath, rd.ev.wd)
            /\ rootWatches' = MapDel(rootWatches, rd.path)
       ELSE UNCHANGED <<wdToPath, rootWatches>>
    /\ eventChan' = IF eventChan < eventChanCap THEN eventChan + 1
                    ELSE eventChan
    /\ rd' = Reading
    /\ UNCHANGED <<envVars, kernVars, stateFile, sysVars, proc, callVars, wk>>

\* Lines 177-185: a record of the watched directory itself (IN_MOVE_SELF,
\* IN_DELETE_SELF) removes the descriptor from w.wdToPath and the path from
\* w.rootWatches; then every record is sent to eventChan, which blocks
\* while the channel is full.
ReadNotify ==
    /\ proc = "up"
    /\ rd.pc = "notify"
    /\ \/ /\ eventChan < eventChanCap
          /\ IF rd.ev.mask \cap {"IN_MOVE_SELF", "IN_DELETE_SELF"} # {}
             THEN /\ wdToPath' = MapDel(wdToPath, rd.ev.wd)
                  /\ rootWatches' = MapDel(rootWatches, rd.path)
             ELSE UNCHANGED <<wdToPath, rootWatches>>
          /\ eventChan' = eventChan + 1
          /\ rd' = Reading
          /\ UNCHANGED <<envVars, kernVars, stateFile, sysVars, proc,
                         callVars, wk>>
       \/ /\ rd.ev.mask \cap {"IN_MOVE_SELF", "IN_DELETE_SELF"} # {}
          /\ RaceStops("reader")

readEvents ==
    /\ ReadRecord \/ ReadStat \/ ReadAddWatchReturn \/ ReadNotify
    /\ UNCHANGED auxVars

----------------------------------------------------------------------------
(* handleEvents, the flow that turns activity into callbacks, and          *)
(* SetCallback.  Time is counted in seconds.                               *)

\* eventBucketSize = 3 * time.Second
eventBucketSize == 3

\* time.After(eventBucketSize), created at time t: when the timer fires.
TimerAfter(t) == t + eventBucketSize

\* The flow's position, its timer, the callback it loaded, and when it
\* received the first and the latest event of the burst.
Waiting == [pc |-> "wait", start |-> 0, last |-> 0, timer |-> 0, cb |-> "nil"]

\* `<-eventChan // wait for an event`, then timer := time.After(...).
HandleWait ==
    /\ proc = "up"
    /\ he.pc = "wait"
    /\ eventChan > 0
    /\ eventChan' = eventChan - 1
    /\ he' = [he EXCEPT !.pc = "collect", !.start = now, !.last = now,
                        !.timer = TimerAfter(now)]
    /\ UNCHANGED <<now, callback, callbackMu, calls, obs>>

\* A select loop that starts the timer anew for every event it discards.
HandleDiscardRestart ==
    /\ proc = "up"
    /\ he.pc = "collect"
    /\ eventChan > 0
    /\ eventChan' = eventChan - 1
    /\ he' = [he EXCEPT !.last = now, !.timer = TimerAfter(now)]
    /\ UNCHANGED <<now, callback, callbackMu, calls, obs>>

\* case <-eventChan: continue // discard event
HandleDiscard ==
    /\ proc = "up"
    /\ he.pc = "collect"
    /\ eventChan > 0
    /\ eventChan' = eventChan - 1
    /\ he' = [he EXCEPT !.last = now]
    /\ UNCHANGED <<now, callback, callbackMu, calls, obs>>

\* case <-timer: break waitForEvents
HandleTimer ==
    /\ proc = "up"
    /\ he.pc = "collect"
    /\ now >= he.timer
    /\ he' = [he EXCEPT !.pc = "load"]
    /\ UNCHANGED <<eventChan, now, callback, callbackMu, calls, obs>>

\* w.callbackMu.Lock(): the flow waits until the mutex is free.
HandleLock ==
    /\ proc = "up"
    /\ he.pc = "load"
    /\ callbackMu = "free"
    /\ callbackMu' = "handler"
    /\ he' = [he EXCEPT !.pc = "locked"]
    /\ UNCHANGED <<eventChan, now, callback, calls, obs>>

\* A handleEvents that keeps a burst for which it finds no callback and
\* tries again: the burst is delivered to the callback that is set later.
HandleLoadKeep ==
    /\ proc = "up"
    /\ he.pc = "locked"
    /\ he' = [he EXCEPT !.pc = IF callback = "nil" THEN "load" ELSE "call",
                        !.cb = callback]
    /\ callbackMu' = "free"
    /\ UNCHANGED <<eventChan, now, callback, calls, obs>>

\* cb := w.callback; w.callbackMu.Unlock()
HandleLoad ==
    /\ proc = "up"
    /\ he.pc = "locked"
    /\ he' = [he EXCEPT !.pc = IF callback = "nil" THEN "wait" ELSE "call",
                        !.cb = callback]
    /\ callbackMu' = "free"
    /\ UNCHANGED <<eventChan, now, callback, calls, obs>>

\* cb(): a callback "f" returns at once; a callback "g" is one that calls
\* SetCallback on the Watch that is invoking it, a callback "h" one that
\* calls AddWatch on it.
HandleCall ==
    /\ proc = "up"
    /\ he.pc = "call"
    /\ calls' = calls + 1
    /\ he' = [he EXCEPT !.pc = CASE he.cb = "g" -> "inside"
                                 [] he.cb = "h" -> "adding"
                                 [] OTHER -> "wait"]
    /\ UNCHANGED <<eventChan, now, callback, callbackMu, obs>>

\* Inside cb(): w.SetCallback(f), which takes callbackMu, stores f and
\* releases it; then cb returns.
HandleReenter ==
    /\ proc = "up"
    /\ he.pc = "inside"
    /\ callbackMu = "free"
    /\ callback' = "f"
    /\ he' = [he EXCEPT !.pc = "wait"]
    /\ UNCHANGED <<eventChan, now, callbackMu, calls, obs>>

handleEvents ==
    /\ \/ HandleWait \/ HandleDiscard \/ HandleTimer \/ HandleLock
       \/ HandleLoad \/ HandleCall \/ HandleReenter
    /\ UNCHANGED <<envVars, kernVars, rootWatches, wdToPath, stateFile,
                   sysVars, proc, callVars, wk, rd, st>>

\* SetCallback: w.callbackMu.Lock().  The program registers a callback
\* once, and it may replace a callback "g" by "f".
SetCallbackLock ==
    /\ proc = "up"
    /\ callback \in {"nil", "g"}
    /\ callbackMu = "free"
    /\ callbackMu' = "setter"
    /\ UNCHANGED callback

\* SetCallback: w.callback = f; w.callbackMu.Unlock()
SetCallbackStore ==
    /\ proc = "up"
    /\ callbackMu = "setter"
    /\ callback' \in IF callback = "nil" THEN {"f", "g"} ELSE {"f"}
    /\ callbackMu' = "free"

\* SetCallback(f), called by the program that owns the Watch.
SetCallback ==
    /\ SetCallbackLock \/ SetCallbackStore
    /\ UNCHANGED <<envVars, kernVars, watchVars, sysVars, proc, callVars,
                   wk, rd, now, he, calls, obs, st>>

----------------------------------------------------------------------------
(* Start and the sentinel file: the calls that compete for its lock.       *)

\* How many calls of Start compete.
MaxCallers == 2
Callers == 1 .. MaxCallers

\* fs.inotify.max_queued_events, the length the queue made by InotifyInit
\* may reach before the kernel drops events.
MaxQueuedEvents == 16384

\* A call of Start that has not begun.  fd says whether the call holds an
\* open description of the sentinel; chan and flows say whether it has made
\* the event channel and started readEvents and handleEvents.
NotCalled == [pc |-> "no", pid |-> 1, fd |-> "none", retried |-> FALSE,
              errno |-> "nil", err |-> "nil", chan |-> FALSE, flows |-> FALSE]

\* The call that returned the Watch the other sections follow.
Returned == [pc |-> "returned", pid |-> 1, fd |-> "open", retried |-> FALSE,
             errno |-> "nil", err |-> "nil", chan |-> TRUE, flows |-> TRUE]
Running == [i \in Callers |-> IF i = 1 THEN Returned ELSE NotCalled]

\* The sentinel exists and the call that returned the Watch holds its lock.
Held == [exists |-> TRUE, holder |-> 1]

\* The processes the calls are made in.
Pids == {1, 2}

\* The holder of the lock when it is a watcher started before these calls.
Earlier == MaxCallers + 1

\* What a step of a call of Start leaves alone.
lockFrame == <<envVars, kernVars, listFirst, maxQueued, dc, tk, watchVars, callVars,
               wk, rd, auxVars>>

\* os.Stat(statePath)
StartStat(i) ==
    /\ sp[i].pc = "no"
    /\ sp' = [sp EXCEPT ![i].pc = IF lk.exists THEN "open" ELSE "create"]
    /\ UNCHANGED <<lk, proc, lockFrame>>

\* os.OpenFile(statePath, os.O_CREATE|os.O_EXCL|os.O_RDWR, 0644); its error
\* is returned as "could not create watch state file".
StartCreate(i) ==
    /\ sp[i].pc = "create"
    /\ IF lk.exists
       THEN /\ sp' = [sp EXCEPT ![i].pc = "returned", ![i].errno = "EEXIST",
                                ![i].err = "could not create watch state file"]
            /\ UNCHANGED lk
       ELSE /\ sp' = [sp EXCEPT ![i].pc = "flock", ![i].fd = "open"]
            /\ lk' = [lk EXCEPT !.exists = TRUE]
    /\ UNCHANGED <<proc, lockFrame>>

\* stateFile, err = os.OpenFile(statePath, os.O_RDWR, 0644): the error is
\* not looked at, and Fd() of the nil file it leaves is -1.
StartOpen(i) ==
    /\ sp[i].pc = "open"
    /\ \E fd \in {"open", "bad"} :
          sp' = [sp EXCEPT ![i].pc = "flock", ![i].fd = fd]
    /\ UNCHANGED <<lk, proc, lockFrame>>

\* A flock that grants the lock whoever holds it, as LOCK_SH would to
\* any number of callers.
FlockShared(i) ==
    IF sp[i].fd = "bad" THEN {"EBADF"}
    ELSE {"nil", "ENOLCK"} \cup (IF sp[i].retried THEN {} ELSE {"EINTR"})

\* unix.Flock(fd, unix.LOCK_NB|unix.LOCK_EX): the errors it may give.  A
\* lock held through another open description of the file conflicts,
\* whichever process holds it.
Flock(i) ==
    IF sp[i].fd = "bad" THEN {"EBADF"}
    ELSE (IF lk.holder = 0 THEN {"nil"} ELSE {"EWOULDBLOCK"})
         \cup {"ENOLCK"} \cup (IF sp[i].retried THEN {} ELSE {"EINTR"})

\* lock(fd): the error it returns for an error of Flock other than EINTR.
lock(e) ==
    CASE e = "nil" -> "nil"
      [] e = "EWOULDBLOCK" -> "another watch process is already running"
      [] OTHER -> "error locking watch file"

\* A Start that goes on whatever lock returned.
StartLockUnchecked(i) ==
    /\ sp[i].pc = "flock"
    /\ \E e \in Flock(i) :
          IF e = "EINTR"
          THEN /\ sp' = [sp EXCEPT ![i].retried = TRUE]
               /\ UNCHANGED lk
          ELSE /\ sp' = [sp EXCEPT ![i].errno = e, ![i].err = lock(e),
                                   ![i].pc = "init"]
               /\ lk' = IF e = "nil" THEN [lk EXCEPT !.holder = i] ELSE lk
    /\ UNCHANGED <<proc, lockFrame>>

\* if err := lock(int(stateFile.Fd())); err != nil { return nil, err }
StartLock(i) ==
    /\ sp[i].pc = "flock"
    /\ \E e \in Flock(i) :
          IF e = "EINTR"
          THEN /\ sp' = [sp EXCEPT ![i].retried = TRUE]
               /\ UNCHANGED lk
          ELSE /\ sp' = [sp EXCEPT ![i].errno = e, ![i].err = lock(e),
                                   ![i].pc = IF e = "nil" THEN "init"
                                             ELSE "returned"]
               /\ lk' = IF e = "nil" THEN [lk EXCEPT !.holder = i] ELSE lk
    /\ UNCHANGED <<proc, lockFrame>>

\* eventChan := make(chan struct{}, 100); w.inotifyFd, err =
\* unix.InotifyInit(), whose error is returned.
StartInit(i) ==
    /\ sp[i].pc = "init"
    /\ \E e \in {"nil", "EMFILE"} :
          sp' = [sp EXCEPT ![i].chan = TRUE, ![i].errno = e,
                           ![i].err = IF e = "nil" THEN sp[i].err
                                      ELSE "inotify",
                           ![i].pc = IF e = "nil" THEN "go" ELSE "returned"]
    /\ UNCHANGED <<lk, proc, lockFrame>>

\* go w.readEvents(eventChan); go w.handleEvents(eventChan); return w, nil
StartGo(i) ==
    /\ sp[i].pc = "go"
    /\ sp' = [sp EXCEPT ![i].flows = TRUE, ![i].pc = "returned"]
    /\ proc' = "up"
    /\ UNCHANGED <<lk, lockFrame>>

\* The file of a call that returned an error is closed when the runtime
\* collects it, and the lock it may hold goes with it.
Finalize(i) ==
    /\ sp[i].pc = "returned"
    /\ sp[i].fd = "open"
    /\ sp[i].err # "nil"
    /\ sp' = [sp EXCEPT ![i].fd = "none"]
    /\ lk' = IF lk.holder = i THEN [lk EXCEPT !.holder = 0] ELSE lk
    /\ UNCHANGED <<proc, lockFrame>>

\* A process exits: its calls end and the kernel closes its files.
Exit(p) ==
    /\ \E i \in Callers : sp[i].pid = p /\ sp[i].pc \notin {"no", "exited"}
    /\ sp' = [i \in Callers |->
                IF sp[i].pid = p /\ sp[i].pc # "no"
                THEN [sp[i] EXCEPT !.pc = "exited", !.fd = "none"]
                ELSE sp[i]]
    /\ lk' = IF lk.holder \in Callers /\ sp[lk.holder].pid = p
             THEN [lk EXCEPT !.holder = 0] ELSE lk
    /\ proc' = IF \E i \in Callers : sp[i].pid = p /\ sp[i].flows
               THEN "crashed" ELSE proc
    /\ UNCHANGED lockFrame

\* The watcher started before these calls exits.
EarlierExit ==
    /\ lk.holder = Earlier
    /\ lk' = [lk EXCEPT !.holder = 0]
    /\ UNCHANGED <<sp, proc, lockFrame>>

\* None of the calls of Start has begun; the state directory may hold the
\* sentinel of an earlier run, and that run may still hold its lock.
InitLock ==
    /\ dirs = {RootR}
    /\ files = {}
    /\ ops = 0
    /\ inWatches = EmptyMap
    /\ nextWd = 1
    /\ inq = <<>>
    /\ listFirst \in BOOLEAN
    /\ maxQueued = MaxQueuedEvents
    /\ lk \in {[exists |-> FALSE, holder |-> 0], [exists |-> TRUE, holder |-> 0],
              [exists |-> TRUE, holder |-> Earlier]}
    /\ sp \in [Callers -> {[NotCalled EXCEPT !.pid = p] : p \in Pids}]
    /\ Elsewhere
    /\ proc = "crashed"
    /\ rootWatches = EmptyMap
    /\ wdToPath = EmptyMap
    /\ stateFile = <<>>
    /\ eventChan = 0
    /\ aw = Idle
    /\ ret = Return(<<>>, FALSE)
    /\ installed = {}
    /\ wk = [f \in Flows |-> NoWalk]
    /\ rd = Reading
    /\ now = 0
    /\ he = Waiting
    /\ callback = "nil"
    /\ callbackMu = "free"
    /\ calls = 0
    /\ obs = NoEvents
    /\ st = Started

NextLock ==
    \/ \E i \in Callers : StartStat(i)
    \/ \E i \in Callers : StartCreate(i)
    \/ \E i \in Callers : StartOpen(i)
    \/ \E i \in Callers : StartLock(i)
    \/ \E i \in Callers : StartInit(i)
    \/ \E i \in Callers : StartGo(i)
    \/ \E i \in Callers : Finalize(i)
    \/ \E p \in Pids : Exit(p)
    \/ EarlierExit

SpecLock == InitLock /\ [][NextLock]_vars

\* The calls that have returned a Watch and whose process is running.
WithWatch == {i \in Callers : sp[i].pc = "returned" /\ sp[i].err = "nil"}

\* C11: of any number of concurrent calls of Start on the same sentinel,
\* from one process or from several, at most one has returned a Watch:
\* every other call that has returned has returned an error.
C11_AtMostOneWatch ==
    /\ Cardinality(WithWatch) <= 1
    /\ \A i \in Callers :
          sp[i].pc = "returned" /\ i \notin WithWatch => sp[i].err # "nil"
    /\ \A i \in WithWatch : lk.holder = i
    /\ lk.holder # 0 => lk.exists

\* One call holds a Watch while a call made in another process, which
\* found the sentinel before the first had locked it, has been turned away.
C11_Witness ==
    \E i \in WithWatch, j \in Callers :
       /\ sp[i].pid # sp[j].pid
       /\ sp[j].pc = "returned"
       /\ sp[j].errno = "EWOULDBLOCK"

\* The errors lock returns.
LockErrors == {"another watch process is already running",
               "error locking watch file"}

\* C12: lock returns "another watch process is already running" exactly
\* when the non-blocking exclusive flock reports EWOULDBLOCK and "error
\* locking watch file" for every other failure, and a Start to which lock
\* returned an error returns that error having made no event channel and
\* started no flow.
C12_LockErrorReturned ==
    \A i \in Callers :
       /\ sp[i].err = "another watch process is already running"
             <=> sp[i].errno = "EWOULDBLOCK"
       /\ sp[i].err = "error locking watch file"
             <=> sp[i].errno \in {"EBADF", "ENOLCK"}
       /\ sp[i].err \in LockErrors =>
             /\ sp[i].pc \in {"returned", "exited"}
             /\ ~sp[i].chan
             /\ ~sp[i].flows

\* Both errors of lock have been returned, one of them after a retry.
C12_Witness ==
    \E i, j \in Callers :
       /\ sp[i].pc = "returned" /\ sp[j].pc = "returned"
       /\ sp[i].err = "another watch process is already running"
       /\ sp[i].retried
       /\ sp[j].err = "error locking watch file"
       /\ sp[j].errno = "ENOLCK"

----------------------------------------------------------------------------
(* The watcher at work: one root, other processes changing its tree.       *)

\* The trees the run may start from.
InitTrees == {{RootR}, {RootR, DirA}, {RootR, DirA, DirB, DirH}}

\* The arguments the caller passes to AddWatch.
RootArgs == {RootR, DirH}
Labels == {Str("p")}

Init ==
    /\ dirs \in InitTrees
    /\ files = {}
    /\ ops = 0
    /\ inWatches = EmptyMap
    /\ nextWd = 1
    /\ inq = <<>>
    /\ listFirst \in BOOLEAN
    /\ maxQueued = MaxQueuedEvents
    /\ lk = Held
    /\ sp = Running
    /\ Elsewhere
    /\ proc = "up"
    /\ rootWatches = EmptyMap
    /\ wdToPath = EmptyMap
    /\ stateFile = <<>>
    /\ eventChan = 0
    /\ aw = Idle
    /\ ret = Return(<<>>, FALSE)
    /\ installed = {}
    /\ wk = [f \in Flows |-> NoWalk]
    /\ rd = Reading
    /\ now = 0
    /\ he = Waiting
    /\ callback = "nil"
    /\ callbackMu = "free"
    /\ calls = 0
    /\ obs = NoEvents
    /\ st = Started

progVars == <<sysVars, proc, rootWatches, wdToPath, stateFile, eventChan,
              aw, ret, installed, wk, rd>>

Env ==
    /\ \/ \E d \in DirUniverse : Mkdir(d) \/ Rmdir(d)
       \/ \E f \in FileUniverse : CreateFile(f) \/ WriteFile(f) \/ RemoveFile(f)
    /\ UNCHANGED progVars
    /\ UNCHANGED auxVars

AddWatch ==
    \/ /\ st.pc = "done"
       /\ \E dir \in RootArgs, project \in Labels : AddWatchBegin(dir, project)
       /\ UNCHANGED auxVars
    \/ AddWatchTruncate /\ UNCHANGED auxVars
    \/ AddWatchEncode /\ UNCHANGED auxVars
    \/ addWatch("caller")
    \/ AddWatchReturn /\ UNCHANGED auxVars

Next ==
    \/ Env
    \/ AddWatch
    \/ readEvents
    \/ addWatch("reader")

Spec == Init /\ [][Next]_vars

----------------------------------------------------------------------------
(* What the watch tree promises.                                           *)

Range(m) == {m[k] : k \in DOMAIN m}

\* Directory d has a live handle: a descriptor of the kernel's watch on d
\* that w.wdToPath maps to d.
Live(d) ==
    \E wd \in DOMAIN wdToPath :
        wdToPath[wd] = d /\ wd \in DOMAIN inWatches /\ inWatches[wd] = d

\* Directory d has no handle at all.
NoHandle(d) == WdOf(d) = 0 /\ d \notin Range(wdToPath)

\* The directories of the tree under root.
Tree(root) == {d \in dirs : d = root \/ Beneath(d, root)}

\* The filter accepts d and every directory between root and d.
RECURSIVE Accepted(_, _)
Accepted(d, root) ==
    ~Skipped(d) /\ (d = root \/ (Beneath(d, root) /\ Accepted(Dir(d), root)))

\* w.addWatch(dir) has returned nil and AddWatch is at its `return nil`.
AtReturnNil ==
    /\ proc = "up"
    /\ aw.pc = "addWatch"
    /\ wk["caller"].phase = "done"
    /\ ~wk["caller"].err

\* Every accepted directory of the tree has a live handle, and the rejected
\* ones and what lies beneath them have none.
Covered(root) ==
    \A d \in Tree(root) : IF Accepted(d, root) THEN Live(d) ELSE NoHandle(d)

Quiet == proc = "up" /\ aw.pc = "idle" /\ inq = <<>> /\ rd.pc = "read"

\* The root is registered and its installation has returned success.
Installed(root) == root \in DOMAIN rootWatches /\ root \in installed

\* C2: a subdirectory created while addWatch is still installing watches
\* on its tree is never permanently missed: once the installation has
\* returned and the pending events are processed, every accepted directory
\* of the tree has a live handle.
C2_NeverMissed ==
    Quiet /\ Installed(RootR) =>
        \A d \in Tree(RootR) : Accepted(d, RootR) => Live(d)

\* The record in hand reports a new subdirectory (created or moved in).
NewDirRecord ==
    /\ rd.ev.mask \cap {"IN_CREATE", "IN_MOVED_TO"} # {}
    /\ "IN_ISDIR" \in rd.ev.mask

\* readEvents is about to send the record of a new subdirectory to eventChan.
AtNotifyOfNewDir == proc = "up" /\ rd.pc = "notify" /\ NewDirRecord

\* A record still in the queue announces directory d or one above it anew.
PendingCreate(d) ==
    \E i \in 1..Len(inq) :
        /\ inq[i].mask \cap {"IN_CREATE", "IN_MOVED_TO"} # {}
        /\ \E a \in DirUniverse :
               (a = d \/ Beneath(d, a)) /\ inq[i].name = Base(a)

\* The step is the read flow's w.wdToPath[wd] = path.
ReaderPut == wk["reader"].phase = "put" /\ wk'["reader"] # wk["reader"]

C6_Retired ==
    Quiet /\ Installed(RootR) =>
        /\ \A wd \in DOMAIN wdToPath :
              wd \in DOMAIN inWatches /\ wdToPath[wd] \in dirs
        /\ dirs = {RootR} => Cardinality(DOMAIN wdToPath) = 1

----------------------------------------------------------------------------
(* Bursts of activity: the root /r is watched, other processes work on its *)
(* files, and time passes.  The flows of the program take no time: a       *)
(* second goes by only when none of them has a step to take.               *)

MaxTime == 8

TimedFiles == {Join(RootR, NameF), Join(RootR, NameG)}

\* The state after AddWatch("/r", "p") on a tree that holds only /r.
InitDebounce ==
    /\ dirs = {RootR}
    /\ files = {}
    /\ ops = 0
    /\ inWatches = MapPut(EmptyMap, 1, RootR)
    /\ nextWd = 2
    /\ inq = <<>>
    /\ listFirst \in BOOLEAN
    /\ maxQueued = MaxQueuedEvents
    /\ lk = Held
    /\ sp = Running
    /\ Elsewhere
    /\ proc = "up"
    /\ rootWatches = MapPut(EmptyMap, RootR, Str("p"))
    /\ wdToPath = MapPut(EmptyMap, 1, RootR)
    /\ stateFile = <<MarshalJSON(MapPut(EmptyMap, RootR, Str("p")))>>
    /\ eventChan = 0
    /\ aw = Idle
    /\ ret = Return(RootR, FALSE)
    /\ installed = {RootR}
    /\ wk = [f \in Flows |-> NoWalk]
    /\ rd = Reading
    /\ now = 0
    /\ he = Waiting
    /\ callback = "nil"
    /\ callbackMu = "free"
    /\ calls = 0
    /\ obs = NoEvents
    /\ st = Started

EnvTimed ==
    /\ \E f \in TimedFiles :
          \/ CreateFile(f)
          \/ WriteFile(f)
          \/ RemoveFile(f)
          \/ \E g \in TimedFiles : Rename(f, g)
    /\ obs' = Note(obs, now, callback # "nil", eventBucketSize)
    /\ UNCHANGED <<progVars, now, he, callback, callbackMu, calls, st>>

\* Some flow of the program has a step to take.
Busy ==
    /\ proc = "up"
    /\ \/ inq # <<>>
       \/ rd.pc # "read"
       \/ he.pc = "wait" /\ eventChan > 0
       \/ he.pc = "collect" /\ (eventChan > 0 \/ now >= he.timer)
       \/ he.pc = "load" /\ callbackMu = "free"
       \/ he.pc \in {"locked", "call"}
       \/ he.pc = "inside" /\ callbackMu = "free"
       \/ callbackMu = "setter"
       \/ he.pc \in {"adding", "added"}

\* A second goes by.
Tick ==
    /\ ~Busy
    /\ now < MaxTime
    /\ now' = now + 1
    /\ UNCHANGED <<envVars, kernVars, progVars, he, callback, callbackMu, calls,
                   obs, st>>

\* readEvents where no directory is created: it never calls w.addWatch.
readFileEvents ==
    /\ ReadRecord \/ ReadStat \/ ReadNotify
    /\ UNCHANGED auxVars

NextDebounce ==
    \/ EnvTimed
    \/ Tick
    \/ SetCallback
    \/ readFileEvents
    \/ handleEvents

SpecDebounce == InitDebounce /\ [][NextDebounce]_vars

\* C4: with a callback registered, a non-empty set of filesystem events
\* that all fall within one quiet period yields exactly one callback
\* invocation, and groups separated by more than a quiet period yield
\* exactly one invocation per group: once the period of the latest group
\* is over there have been as many invocations as groups, and never more
\* invocations than groups.
C4_OnePerGroup ==
    obs.scoped =>
        /\ calls <= obs.groups
        /\ obs.groups > 0 /\ now > obs.first + eventBucketSize =>
               calls = obs.groups

\* handleEvents has left its select loop and is about to invoke the
\* callback, or is invoking it.
AtCallback == proc = "up" /\ he.pc \in {"load", "locked", "call"}

\* C5 as stated: the timer is restarted by every event received during a
\* burst, so the callback is invoked only once a full quiet period has
\* elapsed since the most recent event.
C5_QuietSinceLatest == AtCallback => now >= he.last + eventBucketSize

\* C5: the timer is created once, when the first event of a burst is
\* received, and no later event restarts it: the callback is invoked one
\* quiet period after the first event of the burst, however recently the
\* latest event was received.
C5_PeriodSinceFirst == AtCallback => now = he.start + eventBucketSize

\* The callback is being invoked one quiet period after the first event of
\* a burst whose latest event was received a second ago.
C5_Witness ==
    /\ proc = "up"
    /\ he.pc = "call"
    /\ now = he.start + eventBucketSize
    /\ he.last = now - 1

----------------------------------------------------------------------------
(* The registry across runs: the program registers roots, stops at any     *)
(* point and is started again on the same state directory.  The tree does  *)
(* not change.                                                             *)

MaxStarts == 2

PersistRoots == {RootR, RootX}
PersistLabels == {Str("p"), Str("q")}

\* The process stops: the kernel closes its inotify instance.  What the
\* process held in memory stays in the variables, as the image of its last
\* moment.
Crash ==
    /\ proc = "up"
    /\ proc' = "crashed"
    /\ inWatches' = EmptyMap
    /\ inq' = <<>>
    /\ UNCHANGED <<envVars, nextWd, sysVars, watchVars, callVars, wk, rd,
                   auxVars>>

\* Start(tgStateDir), up to its loop: the state file is opened and locked,
\* json.NewDecoder(w.stateFile).Decode(w) fills w.rootWatches, the inotify
\* instance and the channel are made and the two flows are started.
Start ==
    /\ proc = "crashed"
    /\ st.starts < MaxStarts
    /\ proc' = "up"
    /\ rootWatches' = Decode(stateFile, EmptyMap)
    /\ wdToPath' = EmptyMap
    /\ eventChan' = 0
    /\ inWatches' = EmptyMap
    /\ nextWd' = 1
    /\ inq' = <<>>
    /\ aw' = Idle
    /\ ret' = Return(<<>>, FALSE)
    /\ installed' = {}
    /\ wk' = [f \in Flows |-> NoWalk]
    /\ rd' = Reading
    /\ he' = Waiting
    /\ callback' = "nil"
    /\ callbackMu' = "free"
    /\ st' = [pc |-> "loop", todo |-> DOMAIN Decode(stateFile, EmptyMap),
              starts |-> st.starts + 1]
    /\ UNCHANGED <<envVars, sysVars, stateFile, now, calls, obs>>

\* for path, project := range w.rootWatches { w.AddWatch(path, project) },
\* in the order the map yields.
StartAddWatch ==
    /\ st.pc = "loop"
    /\ \E path \in st.todo :
          /\ AddWatchBegin(path, rootWatches[path])
          /\ st' = [st EXCEPT !.todo = st.todo \ {path}]
    /\ UNCHANGED hdlVars

\* return w, nil
StartReturn ==
    /\ proc = "up"
    /\ st.pc = "loop"
    /\ st.todo = {}
    /\ aw.pc = "idle"
    /\ st' = [st EXCEPT !.pc = "done"]
    /\ UNCHANGED <<envVars, kernVars, progVars, hdlVars>>

\* The caller registers roots and changes labels.
AddWatchPersist ==
    \/ /\ st.pc = "done"
       /\ \E dir \in PersistRoots, project \in PersistLabels :
             AddWatchBegin(dir, project)
       /\ UNCHANGED auxVars
    \/ AddWatchTruncate /\ UNCHANGED auxVars
    \/ AddWatchEncode /\ UNCHANGED auxVars
    \/ addWatch("caller")
    \/ AddWatchReturn /\ UNCHANGED auxVars

\* Start has returned on a state directory without a registry file.
InitPersist ==
    /\ dirs = {RootR, DirA, DirH, RootX}
    /\ files = {}
    /\ ops = 0
    /\ inWatches = EmptyMap
    /\ nextWd = 1
    /\ inq = <<>>
    /\ listFirst \in BOOLEAN
    /\ maxQueued = MaxQueuedEvents
    /\ lk = Held
    /\ sp = Running
    /\ Elsewhere
    /\ proc = "up"
    /\ rootWatches = EmptyMap
    /\ wdToPath = EmptyMap
    /\ stateFile = <<>>
    /\ eventChan = 0
    /\ aw = Idle
    /\ ret = Return(<<>>, FALSE)
    /\ installed = {}
    /\ wk = [f \in Flows |-> NoWalk]
    /\ rd = Reading
    /\ now = 0
    /\ he = Waiting
    /\ callback = "nil"
    /\ callbackMu = "free"
    /\ calls = 0
    /\ obs = NoEvents
    /\ st = Started

NextPersist ==
    \/ AddWatchPersist
    \/ Crash
    \/ Start
    \/ StartAddWatch
    \/ StartReturn

SpecPersist == InitPersist /\ [][NextPersist]_vars

\* The mapping a Start would find in the registry file.
Persisted == Decode(stateFile, EmptyMap)

\* C7: in AddWatch the updated mapping is written to the registry file
\* before any monitor for the new root is installed, and so in every
\* reachable state every root with a live handle in wdToPath as a result of
\* AddWatch is present in the persisted registry.
C7_LiveRootsPersisted ==
    proc = "up" =>
        /\ aw.pc = "addWatch" => aw.dir \in DOMAIN Persisted
        /\ \A root \in DOMAIN rootWatches :
              Live(root) => root \in DOMAIN Persisted

\* Start is at its `return w, nil`.
AtStartReturn ==
    proc = "up" /\ st.pc = "loop" /\ st.todo = {} /\ aw.pc = "idle"

\* C8: the next Start after a stop re-installs every persisted root: when
\* Start returns, each root of the registry and its filter-accepted
\* subdirectories have live handles in wdToPath.
C8_ReinstalledAtStart ==
    AtStartReturn =>
        \A root \in DOMAIN Persisted :
            \A d \in Tree(root) : Accepted(d, root) => Live(d)

\* C9: a registry write is atomic: at every point of AddWatch's persistence
\* step, a stop at that point included, the registry file holds the
\* complete previous mapping or the complete new one, never an empty or
\* partly written document.
C9_AtomicWrite ==
    aw.pc # "idle" =>
        stateFile = aw.before \/ stateFile = <<MarshalJSON(rootWatches)>>

\* C10: whatever mapping of roots to labels the AddWatch calls have built,
\* changed labels included, decoding the registry file at the next Start
\* yields a rootWatches identical to it.
C10_RoundTrip ==
    proc = "up" /\ st.pc = "done" /\ aw.pc = "idle" => Persisted = rootWatches

----------------------------------------------------------------------------
(* Errors and the flows' shared state.                                     *)

\* The step of the caller's walk that runs os.Lstat on a root that is not
\* there.
LstatOfMissingRoot ==
    /\ aw.pc = "addWatch"
    /\ wk["caller"].cur = aw.dir
    /\ aw.dir \notin dirs \cup files
    /\ WalkLstat("caller")

\* C13: AddWatch on a path that does not exist goes on to return an error
\* to the caller: the step that finds the path missing leaves the process
\* running, with the path absent from rootWatches and from the persisted
\* registry and with wdToPath as it was.
C13_NotFoundReturned ==
    [][LstatOfMissingRoot =>
          /\ proc' = "up"
          /\ aw.dir \notin DOMAIN rootWatches'
          /\ aw.dir \notin DOMAIN Decode(stateFile', EmptyMap)
          /\ wdToPath' = wdToPath]_vars

\* C14: the accesses of wdToPath and rootWatches by the caller's flow and
\* by the read flow are serialized by one lock, so the two flows are never
\* both at a write of the maps.
C14_Serialized ==
    ~(proc = "up" /\ MapWriter("caller") /\ MapWriter("reader"))

\* The debouncing run with the Go scheduler at work, while another process
\* creates and writes a file: handleEvents, and a SetCallback that has taken
\* callbackMu, do not stand still for ever when they can take a step.
EnvWrites ==
    /\ \E f \in {Join(RootR, NameF)} : CreateFile(f) \/ WriteFile(f)
    /\ obs' = Note(obs, now, callback # "nil", eventBucketSize)
    /\ UNCHANGED <<progVars, now, he, callback, callbackMu, calls, st>>

NextCallback ==
    \/ EnvWrites
    \/ Tick
    \/ SetCallback
    \/ readFileEvents
    \/ handleEvents

SpecCallback ==
    /\ InitDebounce
    /\ [][NextCallback]_vars
    /\ WF_vars(handleEvents)
    /\ WF_vars(callbackMu = "setter" /\ SetCallback)

\* handleEvents holds callbackMu exactly while it reads w.callback, and not
\* while the callback runs; whoever holds callbackMu can go on to release it.
MutexDiscipline ==
    proc = "up" =>
       /\ callbackMu = "handler" <=> he.pc = "locked"
       /\ he.pc \in {"call", "inside", "adding", "added"} => he.cb # "nil"
       /\ callbackMu = "handler" => ENABLED HandleLoad
       /\ callbackMu = "setter" => ENABLED SetCallbackStore

\* A callback that calls SetCallback from inside always completes, and no
\* interleaving of SetCallback with the dispatch leaves a flow waiting.
SetCallbackCompletes ==
    /\ []MutexDiscipline
    /\ (he.pc \in {"load", "locked", "call", "inside"}) ~> (he.pc = "wait")
    /\ (callbackMu = "setter") ~> (callbackMu # "setter")

\* The directory the callback "h" registers.
ReenterArgs == {DirA}

\* Inside cb(): w.AddWatch(dir, project) begins, on the flow of handleEvents.
ReenterBegin ==
    /\ he.pc = "adding"
    /\ \E dir \in ReenterArgs, project \in Labels : AddWatchBegin(dir, project)
    /\ he' = [he EXCEPT !.pc = "added"]
    /\ UNCHANGED <<now, callback, callbackMu, calls, obs, st>>

\* The rest of that AddWatch.
ReenterAddWatch ==
    /\ he.pc = "added"
    /\ \/ AddWatchTruncate /\ UNCHANGED auxVars
       \/ AddWatchEncode /\ UNCHANGED auxVars
       \/ addWatch("caller")
       \/ AddWatchReturn /\ UNCHANGED auxVars

\* AddWatch has returned to cb, and cb returns.
ReenterReturn ==
    /\ proc = "up"
    /\ he.pc = "added"
    /\ aw.pc = "idle"
    /\ he' = [he EXCEPT !.pc = "wait"]
    /\ UNCHANGED <<envVars, kernVars, progVars, now, callback, callbackMu,
                   calls, obs, st>>

\* Another process makes and removes the directory the callback registers.
EnvReenter ==
    /\ \E d \in ReenterArgs : Mkdir(d) \/ Rmdir(d)
    /\ obs' = Note(obs, now, callback # "nil", eventBucketSize)
    /\ UNCHANGED <<progVars, now, he, callback, callbackMu, calls, st>>

\* The state after AddWatch("/r", "p"), and SetCallback(cb) unless cb is
\* "nil", on a tree that holds /r and the files fs, where queues of the
\* kernel hold mq records.
WatchingRoot(fs, cb, mq) ==
    /\ dirs = {RootR}
    /\ files = fs
    /\ ops = 0
    /\ inWatches = MapPut(EmptyMap, 1, RootR)
    /\ nextWd = 2
    /\ inq = <<>>
    /\ listFirst \in BOOLEAN
    /\ maxQueued = mq
    /\ lk = Held
    /\ sp = Running
    /\ proc = "up"
    /\ rootWatches = MapPut(EmptyMap, RootR, Str("p"))
    /\ wdToPath = MapPut(EmptyMap, 1, RootR)
    /\ stateFile = <<MarshalJSON(MapPut(EmptyMap, RootR, Str("p")))>>
    /\ eventChan = 0
    /\ aw = Idle
    /\ ret = Return(RootR, FALSE)
    /\ installed = {RootR}
    /\ wk = [f \in Flows |-> NoWalk]
    /\ rd = Reading
    /\ now = 0
    /\ he = Waiting
    /\ callback = cb
    /\ callbackMu = "free"
    /\ calls = 0
    /\ obs = NoEvents
    /\ st = Started

InitReenter == WatchingRoot({}, "h", MaxQueuedEvents) /\ Elsewhere

NextReenter ==
    \/ EnvReenter
    \/ Tick
    \/ readEvents
    \/ addWatch("reader")
    \/ handleEvents
    \/ ReenterBegin
    \/ ReenterAddWatch
    \/ ReenterReturn

SpecReenter == InitReenter /\ [][NextReenter]_vars

\* C15: handleEvents reads the callback while it holds callbackMu, releases
\* callbackMu and only then invokes the callback; a callback that calls
\* AddWatch from inside therefore completes: no step of that call ends the
\* process.
C15_ReentrantCallbackCompletes ==
    /\ []MutexDiscipline
    /\ [][ReenterBegin \/ ReenterAddWatch => proc' = "up"]_vars

----------------------------------------------------------------------------
(* The channel between readEvents and handleEvents.                        *)

\* How many records the model lets wait in the kernel's queue.
MaxPending == 2

\* Another process writes to a file of the tree, again and again.
Scribble(f) ==
    /\ f \in files
    /\ Len(inq) < MaxPending
    /\ inq' = Emit(inq, Dir(f), "IN_MODIFY", {}, Base(f))
    /\ UNCHANGED <<dirs, files, ops, inWatches, nextWd>>

EnvScribble ==
    /\ \E f \in files : Scribble(f)
    /\ UNCHANGED progVars
    /\ UNCHANGED auxVars

\* The Watch on /r, whose tree holds the file /r/f.
InitQueue == WatchingRoot({Join(RootR, NameF)}, "nil", MaxQueuedEvents) /\ Elsewhere

NextQueue ==
    \/ EnvScribble
    \/ readFileEvents
    \/ handleEvents

SpecQueue == InitQueue /\ [][NextQueue]_vars

\* readEvents passes from its send to the next read.
Sends == rd.pc = "notify" /\ rd'.pc = "read"

\* C16: the channel between readEvents and handleEvents is bounded and
\* loses nothing: it never holds more than eventChanCap events, every record
\* readEvents has decoded adds exactly one event to it, only a receive of
\* handleEvents takes one out, and while it is full readEvents stays at its
\* send.
C16_BoundedLossless ==
    /\ [](eventChan <= eventChanCap)
    /\ [][Sends => eventChan' = eventChan + 1]_vars
    /\ [][eventChan' < eventChan =>
             /\ eventChan' = eventChan - 1
             /\ he.pc \in {"wait", "collect"}
             /\ he'.pc = "collect"]_vars
    /\ [][eventChan = eventChanCap /\ rd.pc = "notify" => rd' = rd]_vars

\* The channel is full, readEvents is at its send with a decoded record in
\* hand and more records wait in the kernel.
C16_Witness ==
    /\ proc = "up"
    /\ eventChan = eventChanCap
    /\ rd.pc = "notify"
    /\ inq # <<>>

----------------------------------------------------------------------------
(* Directories that are renamed and moved away.                            *)

\* A directory outside every watched tree.
Outside == <<"/", "o">>

\* rename(d, e) of a directory without children, inside the tree: the kernel
\* reports IN_MOVED_FROM and IN_MOVED_TO to the parents' watches; the watch
\* on the directory stays with it, and IN_MOVE_SELF is not in its mask.
RenameDir(d, e) ==
    /\ ops < MaxOps
    /\ d \in dirs /\ d # RootR /\ ~HasChildren(d)
    /\ e \notin dirs \cup files /\ e # RootR /\ Dir(e) \in dirs \ {d}
    /\ dirs' = (dirs \ {d}) \cup {e}
    /\ inq' = Emit(Emit(inq, Dir(d), "IN_MOVED_FROM", {"IN_ISDIR"}, Base(d)),
                   Dir(e), "IN_MOVED_TO", {"IN_ISDIR"}, Base(e))
    /\ inWatches' = IF WdOf(d) # 0 THEN [inWatches EXCEPT ![WdOf(d)] = e]
                    ELSE inWatches
    /\ ops' = ops + 1
    /\ UNCHANGED <<files, nextWd>>

\* rename(d, /o/name): the directory leaves the tree, and only the parent's
\* watch reports it.
MoveOut(d) ==
    /\ ops < MaxOps
    /\ d \in dirs /\ d # RootR /\ ~HasChildren(d)
    /\ dirs' = dirs \ {d}
    /\ inq' = Emit(inq, Dir(d), "IN_MOVED_FROM", {"IN_ISDIR"}, Base(d))
    /\ inWatches' = IF WdOf(d) # 0
                    THEN [inWatches EXCEPT ![WdOf(d)] = Join(Outside, Base(d))]
                    ELSE inWatches
    /\ ops' = ops + 1
    /\ UNCHANGED <<files, nextWd>>

MovedDirs == {DirA, DirC}

EnvMoves ==
    /\ \E d \in MovedDirs :
          \/ Mkdir(d)
          \/ Rmdir(d)
          \/ MoveOut(d)
          \/ \E e \in MovedDirs : RenameDir(d, e)
    /\ UNCHANGED progVars
    /\ UNCHANGED auxVars

\* The state after AddWatch("/r", "p") on the tree {/r, /r/a}, where queues
\* of the kernel hold mq records.
WatchingTree(mq) ==
    /\ dirs = {RootR, DirA}
    /\ files = {}
    /\ ops = 0
    /\ inWatches = MapPut(MapPut(EmptyMap, 1, RootR), 2, DirA)
    /\ nextWd = 3
    /\ inq = <<>>
    /\ listFirst \in BOOLEAN
    /\ maxQueued = mq
    /\ lk = Held
    /\ sp = Running
    /\ proc = "up"
    /\ rootWatches = MapPut(EmptyMap, RootR, Str("p"))
    /\ wdToPath = MapPut(MapPut(EmptyMap, 1, RootR), 2, DirA)
    /\ stateFile = <<MarshalJSON(MapPut(EmptyMap, RootR, Str("p")))>>
    /\ eventChan = 0
    /\ aw = Idle
    /\ ret = Return(RootR, FALSE)
    /\ installed = {RootR}
    /\ wk = [f \in Flows |-> NoWalk]
    /\ rd = Reading
    /\ now = 0
    /\ he = Waiting
    /\ callback = "nil"
    /\ callbackMu = "free"
    /\ calls = 0
    /\ obs = NoEvents
    /\ st = Started

InitMoves == WatchingTree(MaxQueuedEvents) /\ Elsewhere

NextMoves ==
    \/ EnvMoves
    \/ readEvents
    \/ addWatch("reader")

SpecMoves == InitMoves /\ [][NextMoves]_vars

\* C17: after any sequence of directory creations, deletions, renames
\* within the tree, moves out of the tree and re-creations under the same
\* name, no two distinct handles in wdToPath map to the same path.
C17_OnePathPerHandle ==
    \A w1, w2 \in DOMAIN wdToPath :
       w1 # w2 => wdToPath[w1] # wdToPath[w2]

\* C18: a record whose handle has been retired (it is no longer in
\* wdToPath, as for the IN_IGNORED record that follows IN_DELETE_SELF) is
\* discarded by readEvents: it is not sent to eventChan.
C18_RetiredDiscarded ==
    [][Sends /\ rd.ev.wd \notin DOMAIN wdToPath => eventChan' = eventChan]_vars

----------------------------------------------------------------------------
(* A kernel queue that overflows.                                          *)

\* fs.inotify.max_queued_events on a system where it is set low.
MaxQueued == 2

InitOverflow == WatchingTree(MaxQueued) /\ Elsewhere

SpecOverflow == InitOverflow /\ [][NextMoves]_vars

\* Every accepted directory under every registered root has a live handle.
Resynced ==
    \A root \in DOMAIN rootWatches :
       \A d \in Tree(root) : Accepted(d, root) => Live(d)

\* readEvents is through with the overflow record.
OverflowDone == Sends /\ rd.ev = Overflow

\* C19: when readEvents receives the overflow record the watcher enumerates
\* the registered roots anew: once it is through with the record, and no
\* later record waits, every accepted directory that exists under a
\* registered root has a live handle.
C19_ResyncAfterOverflow ==
    [][OverflowDone /\ inq = <<>> => Resynced']_vars

\* C20: only records of changes in the filesystem lead to callbacks: the
\* overflow record adds no event to eventChan.
C20_OnlyRealEvents ==
    [][OverflowDone => eventChan' = eventChan]_vars

\* ---------------------------------------------------------------------
\* The read loops at the level of bytes
\*
\* readEvents above takes one record from the kernel's queue per step.
\* Here the two read loops of the repository, readEvents of package status
\* and watchInotifyFd of findtest, are followed byte by byte: the bytes of
\* a sequence of records arrive in reads of any length, a read may fail,
\* and the descriptor may be closed.  A byte is a number below 256; the
\* bytes of this section stay below 128.

MaxRecs == 2
MaxErrs == 2

SizeofInotifyEvent == 16
NameMax == 255

\* len(buf) of readEvents, and of watchInotifyFd
BufLen == 1024 * SizeofInotifyEvent
inotifyBufSz == SizeofInotifyEvent + NameMax + 1
FdBufLen == inotifyBufSz * 10

Least(a, b) == IF a <= b THEN a ELSE b
Greatest(a, b) == IF a >= b THEN a ELSE b

\* Byte i (from 0) of a buffer that make() has filled with zeros and of
\* which b is the part written so far.
At(b, i) == IF i < Len(b) THEN b[i + 1] ELSE 0

\* The buffer b after c has been copied to its offset off.
WriteAt(b, off, c) ==
    [i \in 1..Greatest(Len(b), off + Len(c)) |->
        IF i > off /\ i <= off + Len(c) THEN c[i - off] ELSE At(b, i - 1)]

\* A little-endian field of four bytes of struct inotify_event.
Uint32(b, i) ==
    At(b, i) + 256 * At(b, i + 1) + 65536 * At(b, i + 2)
             + 16777216 * At(b, i + 3)

Bytes4(v) ==
    <<v % 256, (v \div 256) % 256, (v \div 65536) % 256,
      (v \div 16777216) % 256>>

\* The bits of the masks of this section.
MaskBit == [IN_MODIFY |-> 2, IN_CREATE |-> 256, IN_DELETE_SELF |-> 1024]

\* The kernel ends a name with a zero byte and pads it to a multiple of the
\* size of the header; a record about the watched directory has no name.
PadLen(name) ==
    IF name = <<>> THEN 0
    ELSE ((Len(name) \div SizeofInotifyEvent) + 1) * SizeofInotifyEvent

\* The bytes of a record: wd, mask, cookie, len, name.
Encode(r) ==
    Bytes4(r.wd) \o Bytes4(r.mask) \o Bytes4(0) \o Bytes4(PadLen(r.name))
        \o r.name \o [i \in 1..(PadLen(r.name) - Len(r.name)) |-> 0]

RECURSIVE EncodeAll(_)
EncodeAll(rs) ==
    IF rs = <<>> THEN <<>> ELSE Encode(Head(rs)) \o EncodeAll(Tail(rs))

\* The records of this section: "f" was created in the directory of
\* descriptor 1; the directory of descriptor 2 was removed.
Records ==
    {[wd |-> 1, mask |-> MaskBit.IN_CREATE, name |-> <<102>>],
     [wd |-> 2, mask |-> MaskBit.IN_DELETE_SELF, name |-> <<>>]}

Streams == UNION {[1..k -> Records] : k \in 0..MaxRecs}

ReadLoops == {"readEvents", "watchInotifyFd"}

\* The lengths of the reads: a part of a header, a header, a header and a
\* part of a name, a record with a name and more; and all that is left.
ChunkLens(src) ==
    {k \in {4, 12, 16, 20, 32, 36, 48} : k < Len(src)}
        \cup (IF src = <<>> THEN {} ELSE {Len(src)})

\* A read loop that has not read yet, with the bytes of rs to come.
ReadLoop(l, rs) ==
    [NoRead EXCEPT !.loop = l, !.pc = "read", !.recs = rs,
                   !.src = EncodeAll(rs)]

\* The name of a record whose name field starts at idx and is len long: the
\* bytes up to the last one that is not zero.
NameAt(b, idx, len) ==
    LET rs == {r \in 1..Least(len, Len(b) - idx) : At(b, idx + r - 1) # 0}
        last == CHOOSE r \in rs : \A q \in rs : q <= r
    IN  IF rs = {} THEN <<>> ELSE [i \in 1..last |-> At(b, idx + i - 1)]

\* The event decoded from the header at offset at.
Decoded(b, at) ==
    [wd |-> Uint32(b, at), mask |-> Uint32(b, at + 4),
     name |-> NameAt(b, at + SizeofInotifyEvent,
                     Uint32(b, at + 12))]

readFrame == <<envVars, kernVars, listFirst, maxQueued, lk, sp, tk, watchVars,
               callVars, wk, rd, auxVars>>

\* readEvents: unix.Read(w.inotifyFd, buf) returns k bytes; idx := 0.  A
\* read of fewer bytes than a header prints a message and goes on.
BytesRead(k) ==
    /\ proc = "up" /\ dc.loop = "readEvents" /\ dc.pc = "read"
    /\ k \in ChunkLens(dc.src) /\ k <= BufLen
    /\ dc' = [dc EXCEPT !.buf = WriteAt(dc.buf, 0, SubSeq(dc.src, 1, k)),
                        !.src = SubSeq(dc.src, k + 1, Len(dc.src)),
                        !.n = k, !.start = 0, !.pc = "decode"]
    /\ UNCHANGED <<proc, readFrame>>

\* readEvents: the read fails, n < 0: a message is printed and the switch
\* is left for the loop `for idx < n`.
BytesFail ==
    /\ proc = "up" /\ dc.loop = "readEvents" /\ dc.pc = "read"
    /\ dc.errs < MaxErrs
    /\ dc' = [dc EXCEPT !.n = 0 - 1, !.start = 0, !.errs = @ + 1,
                        !.failed = TRUE, !.pc = "decode"]
    /\ UNCHANGED <<proc, readFrame>>

\* readEvents: the read returns 0: return.
BytesClosed ==
    /\ proc = "up" /\ dc.loop = "readEvents" /\ dc.pc = "read"
    /\ dc.src = <<>>
    /\ dc' = [dc EXCEPT !.n = 0, !.pc = "done"]
    /\ UNCHANGED <<proc, readFrame>>

\* readEvents: one turn of `for idx < n`.  The header is taken from buf[idx]
\* whatever n is, and the name from the event.Len bytes after it; buf[idx+r-1]
\* beyond the buffer is a run-time panic.
BytesDecode ==
    /\ proc = "up" /\ dc.loop = "readEvents" /\ dc.pc = "decode"
    /\ dc.start < dc.n
    /\ LET idx == dc.start + SizeofInotifyEvent
           len == Uint32(dc.buf, dc.start + 12)
       IN  IF len > 0 /\ idx + len > BufLen
           THEN /\ proc' = "crashed"
                /\ dc' = dc
           ELSE /\ proc' = proc
                /\ dc' = [dc EXCEPT !.out = Append(@, Decoded(dc.buf, dc.start)),
                                    !.start = idx + len]
    /\ UNCHANGED readFrame

\* readEvents: idx >= n, back to the read.
BytesNext ==
    /\ proc = "up" /\ dc.loop = "readEvents" /\ dc.pc = "decode"
    /\ dc.start >= dc.n
    /\ dc' = [dc EXCEPT !.pc = "read"]
    /\ UNCHANGED <<proc, readFrame>>

\* watchInotifyFd: unix.Read(w.watchFd, buf[end:]) returns k bytes;
\* end += n.  A read of fewer bytes than a header is os.Exit(1).
FdRead(k) ==
    /\ proc = "up" /\ dc.loop = "watchInotifyFd" /\ dc.pc = "read"
    /\ k \in ChunkLens(dc.src) /\ k <= FdBufLen - dc.end
    /\ IF k < SizeofInotifyEvent
       THEN /\ proc' = "crashed"
            /\ dc' = [dc EXCEPT !.n = k, !.errs = @ + 1,
                                !.src = SubSeq(dc.src, k + 1, Len(dc.src))]
       ELSE /\ proc' = proc
            /\ dc' = [dc EXCEPT
                        !.buf = WriteAt(dc.buf, dc.end, SubSeq(dc.src, 1, k)),
                        !.src = SubSeq(dc.src, k + 1, Len(dc.src)),
                        !.n = k, !.end = @ + k, !.pc = "decode"]
    /\ UNCHANGED readFrame

\* watchInotifyFd: the read fails, n < 0: a message and os.Exit(1).
FdFail ==
    /\ proc = "up" /\ dc.loop = "watchInotifyFd" /\ dc.pc = "read"
    /\ dc.errs < MaxErrs
    /\ proc' = "crashed"
    /\ dc' = [dc EXCEPT !.n = 0 - 1, !.errs = @ + 1, !.failed = TRUE]
    /\ UNCHANGED readFrame

\* watchInotifyFd: the read returns 0.  unix.Read returns a nil error with
\* it, which is not io.EOF, so the message of line 90 is printed; return.
FdClosed ==
    /\ proc = "up" /\ dc.loop = "watchInotifyFd" /\ dc.pc = "read"
    /\ dc.src = <<>>
    /\ dc' = [dc EXCEPT !.n = 0, !.errs = @ + 1, !.pc = "done"]
    /\ UNCHANGED <<proc, readFrame>>

\* watchInotifyFd: whether the loop `for start < end` takes another event:
\* the header is in the buffer and start+event.Len is not beyond end.
FdTakes ==
    /\ dc.start < dc.end
    /\ dc.start + SizeofInotifyEvent <= dc.end
    /\ dc.start + Uint32(dc.buf, dc.start + 12) <= dc.end

\* watchInotifyFd: one event is consumed.  Lines 127-131 do not compile
\* (nextEventStart is not declared); the name is taken as the bytes after
\* the header, as in readEvents.
FdConsume ==
    /\ proc = "up" /\ dc.loop = "watchInotifyFd" /\ dc.pc = "decode"
    /\ FdTakes
    /\ dc' = [dc EXCEPT !.out = Append(@, Decoded(dc.buf, dc.start)),
                        !.start = @ + SizeofInotifyEvent
                                    + Uint32(dc.buf, dc.start + 12)]
    /\ UNCHANGED <<proc, readFrame>>

\* watchInotifyFd: copy(buf, buf[start:end]); start, end = 0, end-start.
\* buf[start:end] with start beyond end is a run-time panic.
FdReset ==
    /\ proc = "up" /\ dc.loop = "watchInotifyFd" /\ dc.pc = "decode"
    /\ ~FdTakes
    /\ IF dc.start > dc.end
       THEN /\ proc' = "crashed"
            /\ dc' = dc
       ELSE /\ proc' = proc
            /\ dc' = [dc EXCEPT
                        !.buf = WriteAt(dc.buf, 0, [i \in 1..(dc.end - dc.start)
                                                     |-> At(dc.buf, dc.start + i - 1)]),
                        !.start = 0, !.end = dc.end - dc.start, !.pc = "read"]
    /\ UNCHANGED readFrame

InitRead ==
    /\ WatchingRoot({}, "nil", MaxQueuedEvents)
    /\ tk = NoStatus
    /\ dc \in {ReadLoop(l, rs) : l \in ReadLoops, rs \in Streams}

NextRead ==
    \/ \E k \in 1..(MaxRecs * 2 * SizeofInotifyEvent) : BytesRead(k)
    \/ BytesFail
    \/ BytesClosed
    \/ BytesDecode
    \/ BytesNext
    \/ \E k \in 1..(MaxRecs * 2 * SizeofInotifyEvent) : FdRead(k)
    \/ FdFail
    \/ FdClosed
    \/ FdConsume
    \/ FdReset

SpecRead == InitRead /\ [][NextRead]_vars

\* C21: a failed read of the notification channel stops the read loop: the
\* failure is reported once, the loop reads no more, and the loop does not
\* end the process; a read of length zero ends the loop and reports
\* nothing.
C21_FailedReadStops ==
    /\ [](dc.failed => dc.errs = 1 /\ proc = "up")
    /\ [][dc.failed /\ dc.pc = "read" => dc' = dc]_vars
    /\ [][dc.pc # "done" /\ dc'.pc = "done" => dc'.errs = dc.errs]_vars

IsPrefix(s, t) == Len(s) <= Len(t) /\ SubSeq(t, 1, Len(s)) = s

\* C22: however the bytes of a sequence of records are split into reads,
\* the loop emits the records of the sequence, in order and nothing else: a
\* record is consumed only when all its bytes have been read, what is left
\* of a read is kept for the next one, and when all the bytes have been
\* read all the records have been emitted.
C22_ChunkingIndependent ==
    ~dc.failed =>
        /\ proc = "up"
        /\ IsPrefix(dc.out, dc.recs)
        /\ Len(EncodeAll(dc.out)) <= Len(EncodeAll(dc.recs)) - Len(dc.src)
        /\ dc.src = <<>> /\ dc.pc = "read" => dc.out = dc.recs

\* When the first read returns all the bytes, both loops emit the records
\* of the stream.
WholeReadDecodes ==
    dc.n = Len(EncodeAll(dc.recs)) /\ ~dc.failed =>
        /\ proc = "up"
        /\ IsPrefix(dc.out, dc.recs)
        /\ dc.pc = "read" => dc.out = dc.recs

----------------------------------------------------------------------------
(* A watched subdirectory that is renamed inside its root.                 *)

RenamedDirs == {DirA, DirC, DirG}

EnvRename ==
    /\ \/ \E d, e \in RenamedDirs : RenameDir(d, e)
       \/ \E d \in RenamedDirs : CreateFile(Join(d, NameF))
       \/ \E d \in RenamedDirs : WriteFile(Join(d, NameF))
    /\ UNCHANGED progVars
    /\ UNCHANGED auxVars

InitRename == WatchingTree(MaxQueuedEvents) /\ Elsewhere

NextRename ==
    \/ EnvRename
    \/ readEvents
    \/ addWatch("reader")

SpecRename == InitRename /\ [][NextRename]_vars

\* readEvents has processed every record, or the process has stopped.
Processed == proc = "crashed" \/ (inq = <<>> /\ rd = Reading)

\* C23: once the records of a rename of a watched subdirectory inside its
\* root are processed, the subdirectory is watched under its new path: the
\* watcher is running, wdToPath maps the directory's handle to the new path,
\* and no entry is left for the old path.
C23_RenamedStillWatched ==
    \A wd \in DOMAIN inWatches :
       inWatches[wd] \in dirs \ {RootR, DirA} /\ Processed =>
          /\ proc = "up"
          /\ wd \in DOMAIN wdToPath
          /\ wdToPath[wd] = inWatches[wd]
          /\ \A w \in DOMAIN wdToPath : wdToPath[w] # DirA

----------------------------------------------------------------------------
(* Status.Tick of package status.                                          *)
(*                                                                         *)
(* The time is counted in minutes.  A Status is made by Read only, which   *)
(* sets tgStateDir, projectName, projectID and latestTick; timeEntryID is  *)
(* assigned nowhere and stays empty.                                       *)

MaxMinutes == 60

\* maxTickGap, in minutes
maxTickGap == 24

Projects == {"p", "q"}

\* The minutes that pass between two calls.
Gaps == {1, maxTickGap, maxTickGap + 1}

\* Post(path, body): the request that is sent; a body is the sequence of
\* its values, the empty string the empty sequence.
Post(path, body) == [path |-> path, body |-> body]

\* s.Stop(t): the request names the time entry and has an empty body; t is
\* not used.
StatusStop(s, t) == Post(<<"time_entries", s.timeEntryID, "stop">>, <<>>)

\* What Save writes to the file "tick": MarshalJSON leaves timeEntryID out.
StatusSave(s) ==
    [tick |-> s.latestTick, project_name |-> s.projectName, project_id |-> ""]

\* The end of the time entry that a stop request asks for: the request of
\* Stop has no body, and so names none (-1).
EndOf(req) == IF req.body = <<>> THEN 0 - 1 ELSE req.body[1]

tickFrame == <<envVars, kernVars, listFirst, maxQueued, lk, sp, dc, proc,
               watchVars, callVars, wk, rd, auxVars>>

\* Time passes.
Pass(d) ==
    /\ tk.pc = "read"
    /\ tk.clock + d <= MaxMinutes
    /\ tk' = [tk EXCEPT !.clock = @ + d]
    /\ UNCHANGED tickFrame

\* s.Tick(projectName)
StatusTick(projectName) ==
    /\ tk.pc = "read"
    /\ LET nowT == tk.clock
           s == [tk EXCEPT !.latestTick = nowT, !.projectName = projectName]
       IN  tk' = [s EXCEPT
                    !.posts = IF nowT - tk.latestTick > maxTickGap
                              THEN Append(@, StatusStop(tk, tk.latestTick))
                              ELSE @,
                    !.arg = projectName,
                    !.file = StatusSave(s)]
    /\ UNCHANGED tickFrame

\* A Status that Read has returned, its last tick being at minute 0.
InitTick ==
    /\ WatchingRoot({}, "nil", MaxQueuedEvents)
    /\ dc = NoRead
    /\ \E p \in Projects :
          LET s == [NoStatus EXCEPT !.pc = "read", !.projectName = p]
          IN  tk = [s EXCEPT !.file = StatusSave(s)]

NextTick ==
    \/ \E d \in Gaps : Pass(d)
    \/ \E p \in Projects : StatusTick(p)

SpecTick == InitTick /\ [][NextTick]_vars

\* C24: a call of Tick more than maxTickGap after the previous tick stops
\* the open time entry with the time of the previous tick as its end; a
\* call at most maxTickGap after it posts nothing; either way latestTick
\* becomes the time of the call, projectName the argument, and the status
\* is saved.
C24_TickStopsAtPreviousTick ==
    [][tk'.posts # tk.posts \/ tk'.latestTick # tk.latestTick
           \/ tk'.file # tk.file \/ tk'.arg # tk.arg =>
        /\ IF tk.clock - tk.latestTick > maxTickGap
           THEN /\ Len(tk'.posts) = Len(tk.posts) + 1
                /\ EndOf(tk'.posts[Len(tk'.posts)]) = tk.latestTick
           ELSE tk'.posts = tk.posts
        /\ tk'.latestTick = tk.clock
        /\ tk'.projectName = tk'.arg
        /\ tk'.file = StatusSave(tk')]_vars

----------------------------------------------------------------------------
(* The order of the watch and of the listing.                              *)

\* Walk reads the names of the directory flow f is at.
Lists(f) ==
    \/ wk[f].phase = "enter" /\ listFirst /\ wk'[f].phase = "fn"
    \/ wk[f].phase = "list" /\ wk'[f] # wk[f]

\* C25: when the names of a directory that addWatch accepts are read, the
\* kernel already watches the directory: the watch comes before the
\* listing the descent relies on, never after it.
C25_WatchThenList ==
    [][\A f \in Flows :
          Lists(f) /\ wk[f].cur \in dirs /\ ~Skipped(wk[f].cur) =>
             WdOf(wk[f].cur) # 0]_vars

----------------------------------------------------------------------------
(* The end of the installation of a directory.                             *)

\* The directories a walk is installing: those whose names it is going
\* through, and the one it is at.
InWalk(w) ==
    {w.stack[i].path : i \in DOMAIN w.stack}
        \cup (IF w.phase \in {"enter", "fn", "put", "list"} THEN {w.cur}
              ELSE {})

\* The walk of flow f is through with directory d, which it accepted.
Leaves(f, d) ==
    /\ d \in InWalk(wk[f]) /\ d \notin InWalk(wk'[f])
    /\ d \in dirs /\ ~Skipped(d)
    /\ ~wk'[f].err /\ proc' = "up"

\* C26: addWatch lists a directory again until a listing finds no child
\* that is not watched yet: at the step where it is through with a
\* directory, every child directory the filter accepts is watched.
C26_RescanUntilNoNewChild ==
    [][\A f \in Flows : \A d \in DirUniverse :
          Leaves(f, d) =>
             \A c \in dirs : Dir(c) = d /\ ~Skipped(c) => WdOf(c) # 0]_vars

----------------------------------------------------------------------------
(* Records of retirement that come twice.                                  *)

\* The working directory as a root: AddWatch(".", project).  The walk
\* function finds that p.Base(".") starts with a dot and returns
\* fp.SkipDir, so the root is registered and nothing is watched for it.
Dot == <<".">>

\* A second record of retirement for a descriptor the kernel has removed.
RetireAgain ==
    /\ ops < MaxOps
    /\ \E wd \in 1..(nextWd - 1) :
          /\ wd \notin DOMAIN inWatches
          /\ inq' = Append(inq, Event(wd, {"IN_DELETE_SELF"}, <<>>))
    /\ ops' = ops + 1
    /\ UNCHANGED <<dirs, files, inWatches, nextWd>>

EnvRetire ==
    /\ \/ Rmdir(DirA)
       \/ Mkdir(DirA)
       \/ CreateFile(Join(RootR, NameF))
       \/ WriteFile(Join(RootR, NameF))
       \/ RetireAgain
    /\ UNCHANGED progVars
    /\ UNCHANGED auxVars

\* The state after AddWatch("/r", "p") and AddWatch(".", "q") on the tree
\* {/r, /r/a}.
InitRetire ==
    /\ dirs = {RootR, DirA, Dot}
    /\ files = {}
    /\ ops = 0
    /\ inWatches = MapPut(MapPut(EmptyMap, 1, RootR), 2, DirA)
    /\ nextWd = 3
    /\ inq = <<>>
    /\ listFirst \in BOOLEAN
    /\ maxQueued = MaxQueuedEvents
    /\ lk = Held
    /\ sp = Running
    /\ Elsewhere
    /\ proc = "up"
    /\ rootWatches = MapPut(MapPut(EmptyMap, RootR, Str("p")), Dot, Str("q"))
    /\ wdToPath = MapPut(MapPut(EmptyMap, 1, RootR), 2, DirA)
    /\ stateFile = <<MarshalJSON(rootWatches)>>
    /\ eventChan = 0
    /\ aw = Idle
    /\ ret = Return(Dot, FALSE)
    /\ installed = {RootR, Dot}
    /\ wk = [f \in Flows |-> NoWalk]
    /\ rd = Reading
    /\ now = 0
    /\ he = Waiting
    /\ callback = "nil"
    /\ callbackMu = "free"
    /\ calls = 0
    /\ obs = NoEvents
    /\ st = Started

NextRetire ==
    \/ EnvRetire
    \/ readEvents
    \/ addWatch("reader")

SpecRetire == InitRetire /\ [][NextRetire]_vars

\* C27: retirement is idempotent: a record of retirement for a handle that
\* is no longer in wdToPath changes neither wdToPath nor rootWatches.
C27_RetirementIdempotent ==
    [][/\ rd.pc = "notify" /\ rd'.pc # "notify"
       /\ rd.ev.mask \cap {"IN_MOVE_SELF", "IN_DELETE_SELF"} # {}
       /\ rd.ev.wd \notin DOMAIN wdToPath
       => wdToPath' = wdToPath /\ rootWatches' = rootWatches]_vars

----------------------------------------------------------------------------
(* A watched directory that is moved away.                                 *)

\* C28: once the records of a move of a watched directory out of every
\* watched tree are processed, its handle is retired: no descriptor whose
\* directory is outside is left in wdToPath.
C28_MovedAwayRetired ==
    proc = "up" /\ inq = <<>> /\ rd = Reading =>
        \A wd \in DOMAIN inWatches :
           Beneath(inWatches[wd], Outside) => wd \notin DOMAIN wdToPath

----------------------------------------------------------------------------
(* The skip filter.                                                        *)

\* The trees of this section: /r with the directories a and vendor, and b
\* in vendor; vendor is managed by dep, by govendor or by neither.
FilterFiles ==
    {{Join(RootR, NameLock)}, {Join(DirV, NameJson)}, {}}

\* Other processes create a hidden directory and a directory in it, and
\* put a regular file in the place of the directory a.
EnvFilter ==
    /\ \/ Mkdir(DirH)
       \/ Mkdir(Join(DirH, NameB))
       \/ Rmdir(DirA)
       \/ CreateFile(DirA)
    /\ UNCHANGED progVars
    /\ UNCHANGED auxVars

InitFilter ==
    /\ dirs = {RootR, DirA, DirV, Join(DirV, NameB)}
    /\ files \in FilterFiles
    /\ ops = 0
    /\ inWatches = EmptyMap
    /\ nextWd = 1
    /\ inq = <<>>
    /\ listFirst \in BOOLEAN
    /\ maxQueued = MaxQueuedEvents
    /\ lk = Held
    /\ sp = Running
    /\ Elsewhere
    /\ proc = "up"
    /\ rootWatches = EmptyMap
    /\ wdToPath = EmptyMap
    /\ stateFile = <<>>
    /\ eventChan = 0
    /\ aw = Idle
    /\ ret = Return(<<>>, FALSE)
    /\ installed = {}
    /\ wk = [f \in Flows |-> NoWalk]
    /\ rd = Reading
    /\ now = 0
    /\ he = Waiting
    /\ callback = "nil"
    /\ callbackMu = "free"
    /\ calls = 0
    /\ obs = NoEvents
    /\ st = Started

NextFilter ==
    \/ EnvFilter
    \/ AddWatch
    \/ readEvents
    \/ addWatch("reader")

SpecFilter == InitFilter /\ [][NextFilter]_vars

\* Path p is a directory the filter rejects, or lies in one.
KeptOut(p) == \E d \in dirs : Skipped(d) /\ (p = d \/ Beneath(p, d))

\* The walk function runs a second time on the directory flow f is at: a
\* Walk that calls it before it reads the names calls it again when the
\* reading fails.
FilteredAgain(f) == wk[f].phase = "fn" /\ ~listFirst /\ wk'[f] # wk[f]

\* C29: the filter is applied once to each directory of an installation;
\* a directory it rejects and everything in it have no handle, whether
\* they are there at AddWatch or created later; a file never has a handle.
C29_FilterKeepsOut ==
    /\ [](\A wd \in DOMAIN inWatches :
             inWatches[wd] \notin files /\ ~KeptOut(inWatches[wd]))
    /\ [](\A wd \in DOMAIN wdToPath :
             wdToPath[wd] \notin files /\ ~KeptOut(wdToPath[wd]))
    /\ [][\A f \in Flows : ~FilteredAgain(f)]_vars

----------------------------------------------------------------------------
(* Delivery of activity to the callback.                                   *)

\* The state after AddWatch("/r", "p") and SetCallback(g) on a tree that
\* holds /r and the file /r/f.
InitDeliver ==
    WatchingRoot({Join(RootR, NameF)}, "g", MaxQueuedEvents) /\ Elsewhere

NextDeliver ==
    \/ EnvTimed
    \/ Tick
    \/ SetCallback
    \/ readFileEvents
    \/ handleEvents

\* The Go scheduler runs every flow that can take a step, a SetCallback
\* that holds callbackMu releases it, and time passes.
SpecDeliver ==
    /\ InitDeliver
    /\ [][NextDeliver]_vars
    /\ WF_vars(readFileEvents)
    /\ WF_vars(handleEvents)
    /\ WF_vars(callbackMu = "setter" /\ SetCallback)
    /\ WF_vars(Tick)

\* An event that readEvents has sent is in the channel, or handleEvents has
\* received it and has not begun the invocation that follows it.
Owed == eventChan > 0 \/ he.pc \in {"collect", "load", "locked", "call"}

\* C30: while a callback is registered, every event readEvents has sent is
\* followed by an invocation of the callback that begins after the send,
\* also when the event arrives while an earlier invocation is running.
\* (The clock of the model stops at MaxTime; the events considered are
\* those whose period ends before that.)
C30_EnqueuedLeadsToCall ==
    \A n \in 0 .. 2 * MaxOps :
       (/\ proc = "up"
        /\ callback # "nil"
        /\ Owed
        /\ calls = n
        /\ now + eventBucketSize <= MaxTime) ~> (calls > n)

----------------------------------------------------------------------------
(* AddWatch on a root that is registered.                                  *)

\* A step of the running process that is not its end.
Runs == proc = "up" /\ proc' = "up"

\* AddWatch goes to work: it has stored the label and is about to write.
Works == aw.pc = "idle" /\ aw'.pc = "truncate"

\* AddWatch is called and returns at once, or Start's loop ends.
Nothing == aw.pc = "idle" /\ aw'.pc = "idle"

\* A step of an AddWatch that found its root registered.
Relabels == aw.pc # "idle" /\ aw.alreadyWatched

----------------------------------------------------------------------------
(* A record of a path that is gone.                                        *)

\* readEvents examines a create or moved-to record of a watched directory
\* whose path no longer exists: the os.Stat of line 167 fails.
StatOfMissing ==
    /\ ReadStat
    /\ rd.ev.mask \cap {"IN_CREATE", "IN_MOVED_TO"} # {}
    /\ rd.ev.wd \in DOMAIN wdToPath
    /\ rd.path = Join(wdToPath[rd.ev.wd], rd.ev.name)
    /\ ~Exists(rd.path)

\* C32: when readEvents examines a create or moved-to record whose path no
\* longer exists, the read flow keeps running: no watch is installed, and
\* the flow goes on to send the event and to read the records that follow.
C32_MissingPathSurvived ==
    [][StatOfMissing =>
          /\ proc' = "up"
          /\ rd'.pc = "notify"
          /\ wk' = wk
          /\ inWatches' = inWatches
          /\ wdToPath' = wdToPath]_vars

----------------------------------------------------------------------------
(* Bursts and the callback that is registered.                             *)

\* The seconds at which a burst can begin.
Seconds == 0 .. MaxTime

\* C33, as stated: a burst whose period has ended while no callback was
\* registered is never followed by an invocation for it, also when a
\* callback is set afterwards.  (A burst is known by the second of its
\* first event; the callback, once set, is never nil again.)
C33_DroppedIfNilAtTimer ==
    \A t \in Seconds :
       [](proc = "up" /\ he.pc = "load" /\ he.start = t /\ callback = "nil"
             => [](he.pc = "call" => he.start # t))

\* C33, amended: the callback of a burst is the one handleEvents reads
\* under callbackMu after the burst's timer has fired.  If it reads nil the
\* burst is dropped: handleEvents goes back to wait for the next event, and
\* a SetCallback invokes nothing and sends nothing.  Otherwise the burst
\* invokes the callback that was read, once, whatever SetCallback stores
\* in the meantime; a new burst begins only with an event from the channel.
C33_CallbackReadAtDispatch ==
    /\ [][he.pc = "locked" /\ he' # he =>
             /\ he'.cb = callback
             /\ he'.pc = IF callback = "nil" THEN "wait" ELSE "call"
             /\ calls' = calls]_vars
    /\ [][SetCallback => calls' = calls /\ he' = he /\ eventChan' = eventChan]_vars
    /\ [][calls' # calls =>
             /\ calls' = calls + 1
             /\ he.pc = "call"
             /\ he.cb # "nil"
             /\ he'.pc \in {"wait", "inside", "adding"}]_vars
    /\ [][he.pc \in {"call", "inside"} => he'.cb = he.cb]_vars
    /\ [][he'.pc = "call" /\ he.pc # "call" => he.pc = "locked"]_vars
    /\ [][he.pc = "wait" /\ he'.pc # "wait" =>
             eventChan > 0 /\ eventChan' = eventChan - 1]_vars

\* A burst was dropped, a callback has been set since, and nothing was
\* invoked.
C33_Witness ==
    /\ proc = "up"
    /\ he.pc = "wait"
    /\ he.timer > 0
    /\ he.cb = "nil"
    /\ callback # "nil"
    /\ eventChan = 0
    /\ calls = 0

----------------------------------------------------------------------------
(* Start on a registry file that is damaged.                               *)

\* The registry files of this section: an empty file, a file that ends
\* inside its document, and a document with a member whose value is a
\* number.
BrokenFiles ==
    {<<>>,
     <<<<Cut>>>>,
     <<<<<<RootR, Str("p")>>, Cut>>>>,
     <<<<<<RootR, Str("p")>>, NumberMember(DirA)>>>>}

\* No Watch is running on the state directory, whose registry file is
\* damaged.
InitBroken ==
    /\ dirs = {RootR, DirA, DirH, RootX}
    /\ files = {}
    /\ ops = 0
    /\ inWatches = EmptyMap
    /\ nextWd = 1
    /\ inq = <<>>
    /\ listFirst \in BOOLEAN
    /\ maxQueued = MaxQueuedEvents
    /\ lk = Held
    /\ sp = Running
    /\ Elsewhere
    /\ proc = "crashed"
    /\ rootWatches = EmptyMap
    /\ wdToPath = EmptyMap
    /\ stateFile \in BrokenFiles
    /\ eventChan = 0
    /\ aw = Idle
    /\ ret = Return(<<>>, FALSE)
    /\ installed = {}
    /\ wk = [f \in Flows |-> NoWalk]
    /\ rd = Reading
    /\ now = 0
    /\ he = Waiting
    /\ callback = "nil"
    /\ callbackMu = "free"
    /\ calls = 0
    /\ obs = NoEvents
    /\ st = [pc |-> "done", todo |-> {}, starts |-> 0]

NextBroken ==
    \/ Start
    \/ StartAddWatch
    \/ StartReturn
    \/ AddWatchPersist

SpecBroken == InitBroken /\ [][NextBroken]_vars

\* Start has returned and no AddWatch is under way.
AtRest == proc = "up" /\ st.pc = "done" /\ aw.pc = "idle"

\* C34: Start on a registry file that is empty or cannot be decoded gives a
\* running Watch with no roots, and once an AddWatch has succeeded the file
\* holds the encoding of the mapping of the roots added since that Start,
\* and of no other.
C34_BrokenRegistryStartsEmpty ==
    /\ [][Start => proc' = "up" /\ rootWatches' = EmptyMap]_vars
    /\ [](AtRest /\ installed # {} =>
             /\ stateFile = <<MarshalJSON(rootWatches)>>
             /\ DOMAIN rootWatches = installed)

====
